---- MODULE Spec2Model ----
(***************************************************************************)
(* Model of the asset library server (src/server/index.js): the filename   *)
(* normaliser, the tag extractor and the GET /api/assets listing handler.  *)
(*                                                                         *)
(* Strings are sequences of one-character strings, so that the regular     *)
(* expressions of the source can be modelled by what they match.           *)
(***************************************************************************)
EXTENDS Integers, Sequences, FiniteSets, TLC

VARIABLES
    fs,      \* the directory under ASSETS_ROOT: sequence of [name, isDir], in enumeration order
    req,     \* the listing request being handled (a record, see NoReq / StartReq)
    res,     \* the response sent for it: NoRes, or [status, ...]
    stem,    \* input of the normaliser run (SpecNorm)
    key1,    \* normalizeBase(stem), once computed
    key2,    \* normalizeBase(key1), once computed
    extracted, \* <<extractTagsFromName(stem)>> once computed, <<>> before
    peer,    \* a second listing request, handled while req is (SpecShared)
    peerRes, \* the response sent for peer
    lastIndex, \* the lastIndex property of the module's regular expressions
    ui       \* the state of the web UI's App component and its fetches (SpecUi)

\* the variables of the runs of the pure functions
normVars == <<stem, key1, key2, extracted>>

\* the variables of the run of two requests
sharedVars == <<peer, peerRes, lastIndex>>

vars == <<fs, req, res, normVars, sharedVars, ui>>

----------------------------------------------------------------------------
(* Bounds *)

\* most entries of the listed directory
MaxEntries == 3
\* most vocabulary pieces concatenated into a stem
MaxPieces == 3
\* most vocabulary pieces concatenated into a filename
MaxTokens == 3

----------------------------------------------------------------------------
(* Characters and strings *)

\* the value of a result not computed yet (no string: "<pending>" is not a character)
Pending == <<"<pending>">>

Digits == {"0", "1", "2", "3", "4", "5", "6", "7", "8", "9"}

UpperCase == <<"A","B","C","D","E","F","G","H","I","J","K","L","M",
               "N","O","P","Q","R","S","T","U","V","W","X","Y","Z">>
LowerCase == <<"a","b","c","d","e","f","g","h","i","j","k","l","m",
               "n","o","p","q","r","s","t","u","v","w","x","y","z">>

\* \s of a regular expression (the only whitespace of the alphabet is the space)
SpaceChars == {" "}
IsSpace(c) == c \in SpaceChars

IsDigit(c) == c \in Digits

\* a pattern position that matches any character (the unescaped dot of USELESS_WORD)
AnyChar == "<any>"

Min(a, b) == IF a < b THEN a ELSE b

\* whether x is an element of the sequence xs
InSeq(x, xs) == \E k \in 1..Len(xs) : xs[k] = x

\* String.prototype.toLowerCase, one character
LowerOf == [c \in {UpperCase[k] : k \in 1..26} |->
                LowerCase[CHOOSE k \in 1..26 : UpperCase[k] = c]]

lowerChar(c) == IF c \in DOMAIN LowerOf THEN LowerOf[c] ELSE c

\* String.prototype.toLowerCase
toLowerCase(s) == [k \in 1..Len(s) |-> lowerChar(s[k])]

\* s.slice(a - 1, b): the characters a..b (1-based, inclusive), empty when a > b
Slice(s, a, b) == IF a > b THEN <<>> ELSE SubSeq(s, a, b)

\* whether the pattern word w (characters, or AnyChar) matches s at position i
MatchesAt(s, i, w) ==
    /\ i + Len(w) - 1 <= Len(s)
    /\ \A k \in 1..Len(w) : w[k] = AnyChar \/ w[k] = s[i + k - 1]

\* An alternation of literal words (w1|w2|...): the length matched at position
\* i, the first alternative that matches winning; 0 when none does.
RECURSIVE MatchAlt(_, _, _)
MatchAlt(s, i, words) ==
    IF words = <<>> THEN 0
    ELSE IF MatchesAt(s, i, Head(words)) THEN Len(Head(words))
    ELSE MatchAlt(s, i, Tail(words))

\* number of consecutive digits of s from position i on
RECURSIVE DigitRun(_, _)
DigitRun(s, i) ==
    IF i <= Len(s) /\ IsDigit(s[i]) THEN 1 + DigitRun(s, i + 1) ELSE 0

----------------------------------------------------------------------------
(* Regular expressions of the normaliser *)

\* the words of the model, as character sequences
W_preview   == <<"p","r","e","v","i","e","w">>
W_thumb     == <<"t","h","u","m","b">>
W_thumbnail == <<"t","h","u","m","b","n","a","i","l">>

\* PREVIEW_WORD_RE / PREVIEW_TEST_RE: (preview|thumb|thumbnail), in this order
PREVIEW_WORDS == <<W_preview, W_thumb, W_thumbnail>>

\* USELESS_WORD: (raw_acescg.exr|raw_acescg.hdr|_mdl); the dot is unescaped
USELESS_WORDS ==
    << <<"r","a","w","_","a","c","e","s","c","g",AnyChar,"e","x","r">>,
       <<"r","a","w","_","a","c","e","s","c","g",AnyChar,"h","d","r">>,
       <<"_","m","d","l">> >>

\* (720|1080|1440|2160|4320)
VIDEO_HEIGHTS ==
    << <<"7","2","0">>, <<"1","0","8","0">>, <<"1","4","4","0">>,
       <<"2","1","6","0">>, <<"4","3","2","0">> >>

\* (512|1?024|2?048|4?096|8?192|16?384|32?768): an optional digit is tried
\* present first, then absent
PIXEL_COUNTS ==
    << <<"5","1","2">>,
       <<"1","0","2","4">>, <<"0","2","4">>,
       <<"2","0","4","8">>, <<"0","4","8">>,
       <<"4","0","9","6">>, <<"0","9","6">>,
       <<"8","1","9","2">>, <<"1","9","2">>,
       <<"1","6","3","8","4">>, <<"1","3","8","4">>,
       <<"3","2","7","6","8">>, <<"3","7","6","8">> >>

\* the character class [\s._()-]
SepChars == SpaceChars \cup {".", "_", "(", ")", "-"}
IsSepChar(c) == c \in SepChars

\* (?:$|[\s._()-]) at position j: the length it consumes, -1 when it fails
TrailLen(s, j) ==
    IF j = Len(s) + 1 THEN 0
    ELSE IF j <= Len(s) /\ IsSepChar(s[j]) THEN 1
    ELSE -1

\* (?=$|[\s._()-]) at position j
TrailAhead(s, j) == j = Len(s) + 1 \/ (j <= Len(s) /\ IsSepChar(s[j]))

\* whether the character at position j is c, case-insensitively (flag i)
IsCharAt(s, j, c) == j <= Len(s) /\ lowerChar(s[j]) = c

\* n, n-1, ..., lo: the lengths a greedy quantifier tries, longest first
RECURSIVE DownTo(_, _)
DownTo(n, lo) == IF n < lo THEN <<>> ELSE <<n>> \o DownTo(n - 1, lo)

\* (?:[1-9]|1[0-9]|2[0-9]|3[0-2])k at j: the body lengths the matcher tries
BodyK(s, j) ==
    LET one == j <= Len(s) /\ s[j] \in (Digits \ {"0"}) /\ IsCharAt(s, j + 1, "k")
        two == /\ j + 1 <= Len(s)
               /\ \/ s[j] \in {"1", "2"} /\ IsDigit(s[j + 1])
                  \/ s[j] = "3" /\ s[j + 1] \in {"0", "1", "2"}
               /\ IsCharAt(s, j + 2, "k")
    IN (IF one THEN <<2>> ELSE <<>>) \o (IF two THEN <<3>> ELSE <<>>)

\* the lengths \d{lo,hi} can take at j, longest first
DigitLens(s, j, lo, hi) == DownTo(Min(DigitRun(s, j), hi), lo)

\* \d{3,5}x\d{3,5} at j
BodyWxH(s, j) ==
    LET widths == DigitLens(s, j, 3, 5)
        RECURSIVE Try(_)
        Try(ws) ==
            IF ws = <<>> THEN <<>>
            ELSE LET w == Head(ws)
                     hs == IF IsCharAt(s, j + w, "x")
                           THEN DigitLens(s, j + w + 1, 3, 5) ELSE <<>>
                 IN [k \in 1..Len(hs) |-> w + 1 + hs[k]] \o Try(Tail(ws))
    IN Try(widths)

\* (720|1080|1440|2160|4320)p at j
BodyP(s, j) ==
    LET n == MatchAlt(s, j, VIDEO_HEIGHTS)
    IN IF n > 0 /\ IsCharAt(s, j + n, "p") THEN <<n + 1>> ELSE <<>>

\* (512|1?024|...|32?768) at j
BodyPx(s, j) ==
    LET n == MatchAlt(s, j, PIXEL_COUNTS)
    IN IF n > 0 THEN <<n>> ELSE <<>>

\* the first body length c, in the order tried, after which the trailing
\* (?:$|[\s._()-]) matches: c plus what the trail consumes; 0 when none
RECURSIVE FirstFit(_, _, _)
FirstFit(s, j, cands) ==
    IF cands = <<>> THEN 0
    ELSE IF TrailLen(s, j + Head(cands)) >= 0
    THEN Head(cands) + TrailLen(s, j + Head(cands))
    ELSE FirstFit(s, j, Tail(cands))

\* the first positive number of ns, 0 when there is none: the alternative
\* that wins among lengths given in the order tried
RECURSIVE FirstPositive(_)
FirstPositive(ns) ==
    IF ns = <<>> THEN 0
    ELSE IF Head(ns) > 0 THEN Head(ns)
    ELSE FirstPositive(Tail(ns))

\* the prefix (?:^|[\s._()-]) at position i before a rest that matches
\* atStart characters from i and afterSep characters from i + 1 (0: no
\* match): the length of the whole match.  ^ is tried before the separator.
Prefixed(s, i, atStart, afterSep) ==
    FirstPositive(<< IF i = 1 THEN atStart ELSE 0,
                     IF i <= Len(s) /\ IsSepChar(s[i]) /\ afterSep > 0
                     THEN 1 + afterSep ELSE 0 >>)

\* RES_TOKENS_RE at position i: its four alternatives in order
MatchRes(s, i) ==
    FirstPositive(<<
        Prefixed(s, i, FirstFit(s, i, BodyK(s, i)), FirstFit(s, i + 1, BodyK(s, i + 1))),
        Prefixed(s, i, FirstFit(s, i, BodyWxH(s, i)), FirstFit(s, i + 1, BodyWxH(s, i + 1))),
        Prefixed(s, i, FirstFit(s, i, BodyP(s, i)), FirstFit(s, i + 1, BodyP(s, i + 1))),
        Prefixed(s, i, FirstFit(s, i, BodyPx(s, i)), FirstFit(s, i + 1, BodyPx(s, i + 1))) >>)

\* the first digit count n, in the order tried, after which the lookahead holds
RECURSIVE FirstAhead(_, _, _)
FirstAhead(s, j, cands) ==
    IF cands = <<>> THEN 0
    ELSE IF TrailAhead(s, j + Head(cands)) THEN Head(cands)
    ELSE FirstAhead(s, j, Tail(cands))

\* v\d{1,4}(?=$|[\s._()-]) at position j: the length matched, 0 when none
VersionAt(s, j) ==
    IF IsCharAt(s, j, "v") /\ FirstAhead(s, j + 1, DigitLens(s, j + 1, 1, 4)) > 0
    THEN 1 + FirstAhead(s, j + 1, DigitLens(s, j + 1, 1, 4))
    ELSE 0

\* VERSION_RE at position i: (?:^|[\s._()-])v\d{1,4}(?=$|[\s._()-])
MatchVersion(s, i) == Prefixed(s, i, VersionAt(s, i), VersionAt(s, i + 1))

\* length of the run of characters of the class chars from position i on
RunLen(s, i, chars) ==
    LET stops == {j \in i..(Len(s) + 1) : j = Len(s) + 1 \/ s[j] \notin chars}
    IN (CHOOSE j \in stops : \A k \in stops : j <= k) - i

\* String.prototype.replace with a global regular expression: m[i] is the
\* length the expression matches at position i (0: no match there).  The scan
\* goes left to right and resumes after each match.
RECURSIVE ReplaceFrom(_, _, _, _)
ReplaceFrom(s, m, i, rep) ==
    IF i > Len(s) THEN <<>>
    ELSE IF m[i] > 0 THEN rep \o ReplaceFrom(s, m, i + m[i], rep)
    ELSE <<s[i]>> \o ReplaceFrom(s, m, i + 1, rep)

ReplaceAll(s, m, rep) == ReplaceFrom(s, m, 1, rep)

\* s.replace(re, ' ') for the four token expressions of normalizeBase and
\* its two separator expressions: the match length at every position is that
\* of the expression
replacePreview(s) ==
    ReplaceAll(s, [i \in 1..Len(s) |-> MatchAlt(toLowerCase(s), i, PREVIEW_WORDS)], <<" ">>)
replaceUseless(s) ==
    ReplaceAll(s, [i \in 1..Len(s) |-> MatchAlt(toLowerCase(s), i, USELESS_WORDS)], <<" ">>)
replaceRes(s) == ReplaceAll(s, [i \in 1..Len(s) |-> MatchRes(s, i)], <<" ">>)
replaceVersion(s) == ReplaceAll(s, [i \in 1..Len(s) |-> MatchVersion(s, i)], <<" ">>)
replaceSeps(s) == ReplaceAll(s, [i \in 1..Len(s) |-> RunLen(s, i, SepChars)], <<" ">>)
removeSpaces(s) == ReplaceAll(s, [i \in 1..Len(s) |-> RunLen(s, i, SpaceChars)], <<>>)

\* String.prototype.trim
trim(s) ==
    LET keep == {k \in 1..Len(s) : ~IsSpace(s[k])}
    IN IF keep = {} THEN <<>>
       ELSE Slice(s, CHOOSE a \in keep : \A k \in keep : a <= k,
                     CHOOSE b \in keep : \A k \in keep : k <= b)

\* normalizeBase without the removal of version tokens
normalizeBaseKeepsVersion(st) ==
    removeSpaces(trim(replaceSeps(
        replaceRes(replaceUseless(replacePreview(toLowerCase(st)))))))

\* the key without the lower-casing of line 132
normalizeBaseCaseSensitive(st) ==
    removeSpaces(trim(replaceSeps(
        replaceVersion(replaceRes(replaceUseless(replacePreview(st)))))))

\* normalizeBase (lines 131-141): lower case, the four token removals in the
\* order PREVIEW_WORD_RE, USELESS_WORD, RES_TOKENS_RE, VERSION_RE, each token
\* becoming a space; separator runs become one space; trim; spaces removed
normalizeBase(st) ==
    removeSpaces(trim(replaceSeps(
        replaceVersion(replaceRes(replaceUseless(replacePreview(toLowerCase(st))))))))

----------------------------------------------------------------------------
(* Filename utilities *)

\* every sequence of at most n elements of S
SeqsUpTo(S, n) == UNION {[1..k -> S] : k \in 0..n}

\* the concatenation of a sequence of strings
RECURSIVE Concat(_)
Concat(ss) == IF ss = <<>> THEN <<>> ELSE Head(ss) \o Concat(Tail(ss))

\* the position of the last "." of a name, 0 when it has none
LastDot(n) ==
    LET dots == {k \in 1..Len(n) : n[k] = "."}
    IN IF dots = {} THEN 0 ELSE CHOOSE d \in dots : \A k \in dots : k <= d

\* path.extname of a single path component: from the last dot on; empty when
\* there is no dot, when the only dot is the first character, and for ".."
extname(n) ==
    LET d == LastDot(n)
    IN IF d = 0 \/ d = 1 \/ n = <<".", ".">> THEN <<>>
       ELSE Slice(n, d, Len(n))

\* extOf(n) = path.extname(n).toLowerCase()
extOf(n) == toLowerCase(extname(n))

\* baseOf(n) = path.basename(n, path.extname(n)): the name without its extension
baseOf(n) == Slice(n, 1, Len(n) - Len(extname(n)))

\* IGNORE_FILES = /^(Thumbs\.db|desktop\.ini|\.DS_Store)$/i
IGNORE_NAMES ==
    { <<"t","h","u","m","b","s",".","d","b">>,
      <<"d","e","s","k","t","o","p",".","i","n","i">>,
      <<".","d","s","_","s","t","o","r","e">> }

\* the test as it would be without the i flag: only the spellings of the
\* pattern itself match
IsIgnoredExactCase(n) ==
    n \in { <<"T","h","u","m","b","s",".","d","b">>,
            <<"d","e","s","k","t","o","p",".","i","n","i">>,
            <<".","D","S","_","S","t","o","r","e">> }

\* IGNORE_FILES.test(name)
IsIgnored(n) == toLowerCase(n) \in IGNORE_NAMES

\* PREVIEW_TEST_RE.test(s): (preview|thumb|thumbnail) occurs somewhere, flag i
PreviewTest(s) == \E i \in 1..Len(s) : MatchAlt(toLowerCase(s), i, PREVIEW_WORDS) > 0

\* the media types mime.lookup knows for the extensions of the model, as
\* [type, subtype] ("type/subtype"); the table is that of the mime-types
\* package, whose releases differ on the raw formats .exr and .hdr, so a
\* lookup gives a set of possible answers.  NoMime is the lookup's false.
NoMime == [type |-> "", subtype |-> ""]
Mime(ty, sub) == [type |-> ty, subtype |-> sub]

mimeLookup(n) ==
    LET e == extOf(n)
    IN CASE e = <<".","j","p","g">> -> {Mime("image", "jpeg")}
         [] e = <<".","p","n","g">> -> {Mime("image", "png")}
         [] e = <<".","e","x","r">> -> {Mime("image", "aces"), NoMime}
         [] e = <<".","h","d","r">> -> {Mime("image", "vnd.radiance"), NoMime}
         [] e = <<".","i","n","i">> -> {Mime("text", "plain")}
         [] OTHER -> {NoMime}

\* mime.lookup(e.name) || 'application/octet-stream'
OrOctetStream(m) == IF m = NoMime THEN Mime("application", "octet-stream") ELSE m

\* mimetype.startsWith(ty + '/')
MimeStartsWith(m, ty) == m.type = ty

\* classify(mimetype)
classify(m) ==
    IF m = NoMime THEN "other"
    ELSE IF MimeStartsWith(m, "image") THEN "image"
    ELSE IF MimeStartsWith(m, "video") THEN "video"
    ELSE IF MimeStartsWith(m, "audio") THEN "audio"
    ELSE IF m = Mime("application", "pdf") THEN "pdf"
    ELSE IF MimeStartsWith(m, "text") THEN "text"
    ELSE "other"

WEB_IMAGE_EXT ==
    { <<".","j","p","g">>,
      <<".","j","p","e","g">>,
      <<".","p","n","g">>,
      <<".","w","e","b","p">>,
      <<".","g","i","f">>,
      <<".","s","v","g">>,
      <<".","a","v","i","f">>,
      <<".","j","f","i","f">>,
      <<".","p","j","p","e","g">>,
      <<".","p","j","p">>,
      <<".","a","p","n","g">>,
      <<".","b","m","p">>,
      <<".","i","c","o">>,
      <<".","c","u","r">> }

IMAGE_EXT_FALLBACK == { <<".","t","i","f">>, <<".","t","i","f","f">>, <<".","b","m","p">>, <<".","d","d","s">> }

----------------------------------------------------------------------------
(* Tagging *)

TAG_STOPWORDS ==
    { <<"p","r","e","v","i","e","w">>,
      <<"t","h","u","m","b">>,
      <<"t","h","u","m","b","n","a","i","l">>,
      <<"r","a","w">>,
      <<"a","c","e","s">>,
      <<"a","c","e","s","c","g">>,
      <<"h","d","r">>,
      <<"h","d","r","i">>,
      <<"m","a","p">>,
      <<"f","r","e","e">>,
      <<"c","o","p","y">>,
      <<"f","i","n","a","l">>,
      <<"r","e","n","d","e","r">>,
      <<"t","x">>,
      <<"e","x","r">>,
      <<"j","p","g">>,
      <<"j","p","e","g">>,
      <<"p","n","g">>,
      <<"w","e","b","p">>,
      <<"m","d","l">> }

\* the character class of TAG_SPLIT_RE: [\s._()\-[\],]
IsTagSplitChar(c) == IsSpace(c) \/ c \in {".", "_", "(", ")", "-", "[", "]", ","}

\* stem.split(TAG_SPLIT_RE).filter(Boolean): the maximal runs of characters
\* that are not split characters, in order
RECURSIVE SplitFrom(_, _, _)
SplitFrom(s, i, cur) ==
    IF i > Len(s) THEN (IF cur = <<>> THEN <<>> ELSE <<cur>>)
    ELSE IF IsTagSplitChar(s[i])
         THEN (IF cur = <<>> THEN <<>> ELSE <<cur>>) \o SplitFrom(s, i + 1, <<>>)
         ELSE SplitFrom(s, i + 1, Append(cur, s[i]))

\* normalizeToken(t): NFKD, combining marks removed, lower case (the alphabet
\* of the model has no accented letters)
normalizeToken(tk) == toLowerCase(tk)

\* TAG_VERSION_RE = /^v\d{1,4}$/i
IsTagVersion(tk) ==
    /\ Len(tk) \in 2..5
    /\ lowerChar(tk[1]) = "v"
    /\ DigitRun(tk, 2) = Len(tk) - 1

\* TAG_RES_RE: ^(1..32)k$ | ^\d{3,5}x\d{3,5}$ | ^(720|1080|1440|2160|4320)p$, flag i
IsTagRes(tk) ==
    \/ InSeq(Len(tk), BodyK(tk, 1))
    \/ InSeq(Len(tk), BodyWxH(tk, 1))
    \/ InSeq(Len(tk), BodyP(tk, 1))

\* /^\d+$/
IsAllDigits(tk) == Len(tk) > 0 /\ DigitRun(tk, 1) = Len(tk)

\* Array.from(new Set(xs)): the first occurrence of each element, in order
RECURSIVE Dedupe(_)
Dedupe(xs) ==
    IF xs = <<>> THEN <<>>
    ELSE LET init == Dedupe(SubSeq(xs, 1, Len(xs) - 1))
             x == xs[Len(xs)]
         IN IF InSeq(x, init) THEN init ELSE Append(init, x)

\* the loop body without the test of TAG_VERSION_RE
TagOfTokenKeepsVersion(raw) ==
    IF normalizeToken(raw) = <<>> THEN <<>>
    ELSE IF normalizeToken(raw) \in TAG_STOPWORDS THEN <<>>
    ELSE IF IsTagRes(normalizeToken(raw)) THEN <<normalizeToken(raw)>>
    ELSE IF IsAllDigits(normalizeToken(raw)) THEN <<>>
    ELSE IF Len(normalizeToken(raw)) >= 3 THEN <<normalizeToken(raw)>>
    ELSE <<>>

\* the loop body of extractTagsFromName: the tags one raw token contributes
TagOfToken(raw) ==
    LET tok == normalizeToken(raw)
    IN IF tok = <<>> THEN <<>>
       ELSE IF IsTagVersion(tok) THEN <<>>
       ELSE IF tok \in TAG_STOPWORDS THEN <<>>
       ELSE IF IsTagRes(tok) THEN <<tok>>
       ELSE IF IsAllDigits(tok) THEN <<>>
       ELSE IF Len(tok) >= 3 THEN <<tok>>
       ELSE <<>>

\* extractTagsFromName(name)
extractTagsFromName(n) ==
    LET raw == SplitFrom(baseOf(n), 1, <<>>)
    IN Dedupe(Concat([k \in 1..Len(raw) |-> TagOfToken(raw[k])]))

----------------------------------------------------------------------------
(* Paths and the root-confinement guard *)

\* s.split('/'): the pieces between slashes, empty pieces included
RECURSIVE SplitSlash(_, _, _)
SplitSlash(s, i, cur) ==
    IF i > Len(s) THEN <<cur>>
    ELSE IF s[i] = "/" THEN <<cur>> \o SplitSlash(s, i + 1, <<>>)
    ELSE SplitSlash(s, i + 1, Append(cur, s[i]))

DotDot == <<".", ".">>

\* the normalisation path.resolve and path.join apply: "" and "." segments
\* are dropped and ".." removes the segment before it.  With allowAbove a ".."
\* that has nothing to remove is kept (a relative path), otherwise it is
\* dropped (an absolute path cannot go above /).
RECURSIVE NormalizeSegs(_, _, _)
NormalizeSegs(acc, segs, allowAbove) ==
    IF segs = <<>> THEN acc
    ELSE LET sg == Head(segs)
         IN IF sg = <<>> \/ sg = <<".">>
            THEN NormalizeSegs(acc, Tail(segs), allowAbove)
            ELSE IF sg = DotDot
            THEN IF acc # <<>> /\ acc[Len(acc)] # DotDot
                 THEN NormalizeSegs(SubSeq(acc, 1, Len(acc) - 1), Tail(segs), allowAbove)
                 ELSE IF allowAbove
                 THEN NormalizeSegs(Append(acc, sg), Tail(segs), allowAbove)
                 ELSE NormalizeSegs(acc, Tail(segs), allowAbove)
            ELSE NormalizeSegs(Append(acc, sg), Tail(segs), allowAbove)

\* segments joined by "/"
RECURSIVE JoinSlash(_)
JoinSlash(segs) ==
    IF segs = <<>> THEN <<>>
    ELSE IF Len(segs) = 1 THEN segs[1]
    ELSE segs[1] \o <<"/">> \o JoinSlash(Tail(segs))

\* ASSETS_ROOT, an absolute path, as its segments ("/assets")
ASSETS_ROOT == << <<"a","s","s","e","t","s">> >>

\* path.resolve(root, rel): the segments of the absolute path; an absolute rel
\* replaces the root
pathResolve(root, rel) ==
    IF rel # <<>> /\ rel[1] = "/"
    THEN NormalizeSegs(<<>>, SplitSlash(rel, 1, <<>>), FALSE)
    ELSE NormalizeSegs(root, SplitSlash(rel, 1, <<>>), FALSE)

\* length of the common prefix of two segment sequences
RECURSIVE CommonLen(_, _)
CommonLen(a, b) ==
    IF a # <<>> /\ b # <<>> /\ Head(a) = Head(b)
    THEN 1 + CommonLen(Tail(a), Tail(b)) ELSE 0

\* path.relative(from, to) of two absolute paths, as a string
pathRelative(from, to) ==
    LET c == CommonLen(from, to)
    IN JoinSlash([k \in 1..(Len(from) - c) |-> DotDot] \o Slice(to, c + 1, Len(to)))

\* String.prototype.startsWith
startsWith(s, pre) == Len(pre) <= Len(s) /\ SubSeq(s, 1, Len(pre)) = pre

\* path.isAbsolute, POSIX
isAbsolute(s) == s # <<>> /\ s[1] = "/"

\* the join without the guard: path.resolve(root, rel) whatever it is
safeJoinUnguarded(root, rel) == [ok |-> TRUE, abs |-> pathResolve(root, rel)]

\* safeJoin(root, rel): [ok |-> TRUE, abs |-> segments] or the thrown error
safeJoin(root, rel) ==
    LET abs == pathResolve(root, rel)
        relToRoot == pathRelative(root, abs)
    IN IF startsWith(relToRoot, DotDot) \/ isAbsolute(relToRoot)
       THEN [ok |-> FALSE, error |-> "Path traversal blocked"]
       ELSE [ok |-> TRUE, abs |-> abs]

\* path.join(rel, name).replaceAll('\\', '/') on POSIX paths
pathJoin(rel, n) ==
    LET abs == isAbsolute(rel)
        segs == NormalizeSegs(<<>>, SplitSlash(rel, 1, <<>>) \o SplitSlash(n, 1, <<>>), ~abs)
    IN IF abs THEN <<"/">> \o JoinSlash(segs)
       ELSE IF segs = <<>> THEN <<".">>
       ELSE JoinSlash(segs)

\* encodeURI on the characters of the model
encodeURI(s) ==
    Concat([k \in 1..Len(s) |->
        CASE s[k] = " " -> <<"%", "2", "0">>
          [] s[k] = "[" -> <<"%", "5", "B">>
          [] s[k] = "]" -> <<"%", "5", "D">>
          [] OTHER -> <<s[k]>>])

\* `/files/${encodeURI(path.join(rel, name).replaceAll('\\','/'))}`
fileUrl(rel, n) == <<"/","f","i","l","e","s","/">> \o encodeURI(pathJoin(rel, n))

----------------------------------------------------------------------------
(* String comparison: String.prototype.localeCompare *)

\* the punctuation of the model in collation order; all of it sorts before
\* the digits, which sort before the letters
COLLATION_PUNCT == <<" ", "_", "-", ",", ".", "(", ")", "[", "]", "/", "%">>

IndexIn(x, xs) == CHOOSE k \in 1..Len(xs) : xs[k] = x

DigitValue(c) == IndexIn(c, <<"0","1","2","3","4","5","6","7","8","9">>) - 1

\* the value of the digits s[i .. i+n-1]
RECURSIVE NumberAt(_, _, _)
NumberAt(s, i, n) ==
    IF n = 0 THEN 0 ELSE NumberAt(s, i, n - 1) * 10 + DigitValue(s[i + n - 1])

\* the primary collation weight of one character: <<class, rank>>; upper and
\* lower case have the same primary weight
CharWeight(c) ==
    IF IsDigit(c) THEN <<1, DigitValue(c)>>
    ELSE IF InSeq(lowerChar(c), LowerCase) THEN <<2, IndexIn(lowerChar(c), LowerCase)>>
    ELSE <<0, IndexIn(c, COLLATION_PUNCT)>>

\* the collation elements of s from position i on; with numeric ordering a run
\* of digits is one element weighted by its value
RECURSIVE CollationKey(_, _, _)
CollationKey(s, i, numeric) ==
    IF i > Len(s) THEN <<>>
    ELSE IF numeric /\ IsDigit(s[i])
    THEN LET n == DigitRun(s, i)
         IN << <<1, NumberAt(s, i, n)>> >> \o CollationKey(s, i + n, numeric)
    ELSE <<CharWeight(s[i])>> \o CollationKey(s, i + 1, numeric)

\* lexicographic comparison of two keys: -1, 0 or 1
RECURSIVE CompareKeys(_, _)
CompareKeys(a, b) ==
    IF a = <<>> THEN (IF b = <<>> THEN 0 ELSE -1)
    ELSE IF b = <<>> THEN 1
    ELSE IF Head(a)[1] # Head(b)[1] THEN (IF Head(a)[1] < Head(b)[1] THEN -1 ELSE 1)
    ELSE IF Head(a)[2] # Head(b)[2] THEN (IF Head(a)[2] < Head(b)[2] THEN -1 ELSE 1)
    ELSE CompareKeys(Tail(a), Tail(b))

\* a.localeCompare(b, undefined, { numeric: true, sensitivity: 'base' })
localeCompareNumericBase(a, b) == CompareKeys(CollationKey(a, 1, TRUE), CollationKey(b, 1, TRUE))

\* a.localeCompare(b) on lower-case strings
localeCompare(a, b) == CompareKeys(CollationKey(a, 1, FALSE), CollationKey(b, 1, FALSE))

\* Array.prototype.sort with a comparator that is a consistent ordering,
\* cmp[j][k] being the comparator's answer for xs[j] and xs[k]: the stable
\* sort, each element going to the position given by the number of elements
\* that sort before it
sortBy(xs, cmp) ==
    LET n == Len(xs)
        rank == [k \in 1..n |->
                    1 + Cardinality({j \in 1..n :
                            \/ cmp[j][k] < 0
                            \/ cmp[j][k] = 0 /\ j < k})]
    IN [r \in 1..n |-> xs[CHOOSE k \in 1..n : rank[k] = r]]

----------------------------------------------------------------------------
(* GET /api/assets *)

\* Array.prototype.find, as a position: flags[k] tells whether element k
\* satisfies the predicate; the first position that does, 0 when none does
findIndex(flags) ==
    IF \E k \in 1..Len(flags) : flags[k]
    THEN CHOOSE k \in 1..Len(flags) : flags[k] /\ \A j \in 1..(k - 1) : ~flags[j]
    ELSE 0

\* null, for a field that otherwise holds a string (no string of the handler
\* is empty where null is possible)
Null == <<>>

\* the record pushed for a file e (lines 251-261), mimeType being the answer
\* of mime.lookup(e.name) || 'application/octet-stream'
fileRecord(rel, e, mimeType) ==
    LET ext == extOf(e.name)
        st == baseOf(e.name)
    IN [ name |-> e.name,
         url |-> fileUrl(rel, e.name),
         ext |-> ext,
         mimetype |-> mimeType,
         isImage |-> MimeStartsWith(mimeType, "image") \/ ext \in IMAGE_EXT_FALLBACK,
         isPreviewLike |-> PreviewTest(st),
         tags |-> extractTagsFromName(e.name) ]

\* groups.has(key)
groupsHas(groups, k) == \E g \in 1..Len(groups) : groups[g].key = k

\* the push with groups.set(key, [f]) for every file: a key met again loses
\* the variants it had
groupsPushResets(groups, k, f) ==
    IF \E g \in 1..Len(groups) : groups[g].key = k
    THEN [g \in 1..Len(groups) |->
            IF groups[g].key = k
            THEN [groups[g] EXCEPT !.files = <<f>>]
            ELSE groups[g]]
    ELSE Append(groups, [key |-> k, files |-> <<f>>])

\* the push with unshift in place of push: the file met last comes first
groupsPushFront(groups, k, f) ==
    IF \E g \in 1..Len(groups) : groups[g].key = k
    THEN [g \in 1..Len(groups) |->
            IF groups[g].key = k
            THEN [groups[g] EXCEPT !.files = <<f>> \o @]
            ELSE groups[g]]
    ELSE Append(groups, [key |-> k, files |-> <<f>>])

\* the push with a file of empty key always starting a group of its own
groupsPushEmptyKeyApart(groups, k, f) ==
    IF k # <<>> /\ \E g \in 1..Len(groups) : groups[g].key = k
    THEN [g \in 1..Len(groups) |->
            IF groups[g].key = k
            THEN [groups[g] EXCEPT !.files = Append(@, f)]
            ELSE groups[g]]
    ELSE Append(groups, [key |-> k, files |-> <<f>>])

\* if (!groups.has(key)) groups.set(key, []); groups.get(key).push(f): the Map
\* keeps its keys in insertion order
groupsPush(groups, k, f) ==
    IF groupsHas(groups, k)
    THEN [g \in 1..Len(groups) |->
            IF groups[g].key = k
            THEN [groups[g] EXCEPT !.files = Append(@, f)]
            ELSE groups[g]]
    ELSE Append(groups, [key |-> k, files |-> <<f>>])

\* the item pushed for a subdirectory (lines 270-280)
dirItem(rel, d) ==
    [ name |-> d.name,
      path |-> pathJoin(rel, d.name),
      isDir |-> TRUE,
      url |-> Null,
      thumbnail |-> Null,
      files |-> <<>>,
      tags |-> <<>> ]

IsExr(f) == f.ext = <<".","e","x","r">>
IsHdr(f) == f.ext = <<".","h","d","r">>
IsPreviewThumb(f) == f.isImage /\ f.isPreviewLike /\ f.ext \in WEB_IMAGE_EXT
IsWebThumb(f) == f.isImage /\ f.ext \in WEB_IMAGE_EXT

\* the primary with the two raw formats looked for in the other order
primaryOfHdrFirst(files) ==
    LET e == findIndex([k \in 1..Len(files) |-> IsExr(files[k])])
        h == findIndex([k \in 1..Len(files) |-> IsHdr(files[k])])
    IN IF h > 0 THEN files[h] ELSE IF e > 0 THEN files[e] ELSE files[1]

\* files.find(.exr) || files.find(.hdr) || files[0]
primaryOf(files) ==
    LET e == findIndex([k \in 1..Len(files) |-> IsExr(files[k])])
        h == findIndex([k \in 1..Len(files) |-> IsHdr(files[k])])
    IN IF e > 0 THEN files[e] ELSE IF h > 0 THEN files[h] ELSE files[1]

\* the thumbnail without the preference for preview-marked files
thumbOfAnyWebImage(files) ==
    findIndex([k \in 1..Len(files) |-> IsWebThumb(files[k])])

\* files.find(preview-like web image) || files.find(web image) || null, as a
\* position in files (0: null)
thumbOf(files) ==
    LET pv == findIndex([k \in 1..Len(files) |-> IsPreviewThumb(files[k])])
    IN IF pv > 0 THEN pv ELSE findIndex([k \in 1..Len(files) |-> IsWebThumb(files[k])])

\* the union without the Set: files.flatMap(f => f.tags || [])
unionTagsOfFlatMap(files) == Concat([k \in 1..Len(files) |-> files[k].tags])

\* Array.from(new Set(files.flatMap(f => f.tags || [])))
unionTagsOf(files) == Dedupe(Concat([k \in 1..Len(files) |-> files[k].tags]))

\* classify(primary.mimetype), forced to 'other' for an .exr primary
kindOf(primary) == IF IsExr(primary) THEN "other" ELSE classify(primary.mimetype)

\* the item pushed for a group (lines 284-313)
groupItem(rel, g) ==
    LET primary == primaryOf(g.files)
        thumb == thumbOf(g.files)
    IN [ name |-> primary.name,
         path |-> pathJoin(rel, primary.name),
         isDir |-> FALSE,
         url |-> primary.url,
         thumbnail |-> IF thumb = 0 THEN Null ELSE g.files[thumb].url,
         mimetype |-> primary.mimetype,
         kind |-> kindOf(primary),
         files |-> g.files,
         normalizeBase |-> g.key,
         tags |-> unionTagsOf(g.files) ]

\* the comparator without the numeric option
compareItemsNotNumeric(a, b) ==
    IF a.isDir /\ ~b.isDir THEN -1
    ELSE IF ~a.isDir /\ b.isDir THEN 1
    ELSE localeCompare(a.name, b.name)

\* the comparator of outItems.sort: directories first, then by name
compareItems(a, b) ==
    IF a.isDir /\ ~b.isDir THEN -1
    ELSE IF ~a.isDir /\ b.isDir THEN 1
    ELSE localeCompareNumericBase(a.name, b.name)

\* the tags an item would add if every variant's tags were counted
itemTagKeysPerVariant(it) ==
    IF it.isDir THEN <<>>
    ELSE Concat([v \in 1..Len(it.files) |->
            [k \in 1..Len(it.files[v].tags) |-> toLowerCase(it.files[v].tags[k])]])

\* the tags one item adds to tagCount: its tags in lower case, each once
itemTagKeys(it) == IF it.isDir THEN <<>> ELSE Dedupe([k \in 1..Len(it.tags) |-> toLowerCase(it.tags[k])])

\* tagCount as [name, count] entries in the Map's insertion order (lines 324-336)
tagCountOf(items) ==
    LET keys == Concat([k \in 1..Len(items) |-> itemTagKeys(items[k])])
        names == Dedupe(keys)
    IN [k \in 1..Len(names) |->
          [ name |-> names[k],
            count |-> Cardinality({j \in 1..Len(keys) : keys[j] = names[k]}) ]]

\* the comparator of the tag sort without the counts
compareTagsByName(a, b) == localeCompare(a.name, b.name)

\* the comparator of the tag sort: b.count - a.count || a.name.localeCompare(b.name)
compareTags(a, b) ==
    IF b.count - a.count # 0 THEN b.count - a.count ELSE localeCompare(a.name, b.name)

\* the request record: where the handler stands (pc) and its local variables
NoReq ==
    [ pc |-> "idle", rel |-> <<>>, dirAbs |-> <<>>, entries |-> <<>>, i |-> 1,
      groups |-> <<>>, dirs |-> <<>>, j |-> 1, outItems |-> <<>> ]

\* res.json({ cwd, items, tags })
okResponse(rel, items, tags) == [status |-> 200, cwd |-> rel, items |-> items, tags |-> tags]

\* res.status(500).json({ error })
errorResponse(msg) == [status |-> 500, error |-> msg]

\* fs.readdir(dirAbs, { withFileTypes: true }) on the modelled tree: the root
\* holds the entries of dir, each subdirectory of it is empty
readdir(dir, dirAbs) ==
    IF dirAbs = ASSETS_ROOT THEN [ok |-> TRUE, entries |-> dir]
    ELSE IF /\ Len(dirAbs) = Len(ASSETS_ROOT) + 1
            /\ SubSeq(dirAbs, 1, Len(ASSETS_ROOT)) = ASSETS_ROOT
            /\ \E k \in 1..Len(dir) : dir[k].name = dirAbs[Len(dirAbs)]
    THEN LET e == dir[CHOOSE k \in 1..Len(dir) : dir[k].name = dirAbs[Len(dirAbs)]]
         IN IF e.isDir THEN [ok |-> TRUE, entries |-> <<>>]
            ELSE [ok |-> FALSE, error |-> "ENOTDIR"]
    ELSE [ok |-> FALSE, error |-> "ENOENT"]

\* where the handler goes once entry i - 1 of the scan loop is done
afterScan(r) ==
    IF r.i <= Len(r.entries) THEN [r EXCEPT !.pc = "scan"]
    ELSE IF r.dirs # <<>> THEN [r EXCEPT !.pc = "dirs"]
    ELSE [r EXCEPT !.pc = "finish"]

\* where the handler goes once directory j - 1 of the second loop is done
afterDirs(r) ==
    IF r.j <= Len(r.dirs) THEN [r EXCEPT !.pc = "dirs"] ELSE [r EXCEPT !.pc = "finish"]

\* lines 340-343, the catch block: the error is answered with status 500 and
\* the handler ends
catchStep(r, msg) == [req |-> [r EXCEPT !.pc = "done"], out |-> <<errorResponse(msg)>>]

\* a failed stat of file i caught inside the loop: the file is left out and
\* the scan goes on
scanStatFailsSkips(r) == [req |-> afterScan([r EXCEPT !.i = @ + 1]), out |-> <<>>]

\* line 238: the awaited fs.stat of file i throws inside the try block
scanStatFailsStep(r) == catchStep(r, "ENOENT")

\* line 269: the awaited fs.stat of directory j throws inside the try block
dirStatFailsStep(r) == catchStep(r, "ENOENT")

\* lines 222-225: the handler starts, up to the call of fs.readdir
startStep(rel) ==
    LET sj == safeJoin(ASSETS_ROOT, rel)
    IN IF sj.ok
       THEN [req |-> [NoReq EXCEPT !.pc = "readdir", !.rel = rel, !.dirAbs = sj.abs],
             out |-> <<>>]
       ELSE catchStep([NoReq EXCEPT !.rel = rel], sj.error)

\* fs.readdir with a failure taken for an empty directory
readdirStepEmptyOnError(r, rd) ==
    [req |-> afterScan([r EXCEPT !.entries = IF rd.ok THEN rd.entries ELSE <<>>, !.i = 1]),
     out |-> <<>>]

\* line 225: fs.readdir answers rd
readdirStep(r, rd) ==
    IF rd.ok
    THEN [req |-> afterScan([r EXCEPT !.entries = rd.entries, !.i = 1]), out |-> <<>>]
    ELSE catchStep(r, rd.error)

\* lines 231-234: entry i is a directory
scanDirStep(r) ==
    afterScan([r EXCEPT !.dirs = Append(@, r.entries[r.i]), !.i = @ + 1])

\* line 235: entry i is an ignored file
scanIgnoredStep(r) == afterScan([r EXCEPT !.i = @ + 1])

\* lines 237-261: entry i is a file, its stat succeeded and mime.lookup gave m
scanFileStep(r, m) ==
    LET e == r.entries[r.i]
        k == normalizeBase(baseOf(e.name))
        f == fileRecord(r.rel, e, OrOctetStream(m))
    IN afterScan([r EXCEPT !.groups = groupsPush(@, k, f), !.i = @ + 1])

\* lines 267-281: the stat of directory j succeeded
dirStep(r) ==
    afterDirs([r EXCEPT !.outItems = Append(@, dirItem(r.rel, r.dirs[r.j])), !.j = @ + 1])

\* lines 284-321: the items of the listing, sorted
listingItems(r) ==
    LET its == r.outItems \o [g \in 1..Len(r.groups) |-> groupItem(r.rel, r.groups[g])]
    IN sortBy(its, [a \in 1..Len(its) |-> [b \in 1..Len(its) |-> compareItems(its[a], its[b])]])

\* lines 324-337: the tag counts of the listing, sorted
listingTags(items) ==
    LET tc == tagCountOf(items)
    IN sortBy(tc, [a \in 1..Len(tc) |-> [b \in 1..Len(tc) |-> compareTags(tc[a], tc[b])]])

\* lines 284-339: the response of a scan that went through
finishStep(r) ==
    LET items == listingItems(r)
    IN [req |-> [r EXCEPT !.pc = "done", !.outItems = items],
        out |-> <<okResponse(r.rel, items, listingTags(items))>>]

----------------------------------------------------------------------------
(* The listing handler on bounded directories *)

N_rock_exr == <<"r","o","c","k",".","e","x","r">>
N_rock_hdr == <<"r","o","c","k",".","h","d","r">>
N_rock_jpg == <<"r","o","c","k",".","j","p","g">>
N_rock_preview_jpg == <<"r","o","c","k","_","p","r","e","v","i","e","w",".","j","p","g">>
N_rock_thumb_png == <<"r","o","c","k","_","t","h","u","m","b",".","p","n","g">>
N_wood_4k_preview_v2_jpg == <<"w","o","o","d","_","4","k","_","p","r","e","v","i","e","w","_","v","2",".","j","p","g">>
N_wood_albedo_png == <<"w","o","o","d","_","a","l","b","e","d","o",".","p","n","g">>
N_Thumbs_db == <<"T","h","u","m","b","s",".","d","b">>
N_desktop_ini == <<"d","e","s","k","t","o","p",".","i","n","i">>
N_DS_STORE == <<".","D","S","_","S","T","O","R","E">>
N_Wood_png == <<"W","o","o","d",".","p","n","g">>
N_wood_2k_jpg == <<"w","o","o","d","_","2","k",".","j","p","g">>
N_Folder2 == <<"F","o","l","d","e","r","2">>
N_folder10 == <<"f","o","l","d","e","r","1","0">>

File(n) == [name |-> n, isDir |-> FALSE]
Dir(n) == [name |-> n, isDir |-> TRUE]

\* the entries the directories of Spec are made of: the variants of one
\* asset in raw and web formats, two subdirectories and an ignored file
RockPool ==
    { File(N_rock_exr), File(N_rock_hdr), File(N_rock_jpg),
      File(N_rock_preview_jpg), File(N_rock_thumb_png),
      File(N_Thumbs_db), Dir(N_Folder2), Dir(N_folder10) }

\* the entries the directories of SpecWood are made of: files whose stems
\* carry noise tokens, the ignored files and two subdirectories
WoodPool ==
    { File(N_wood_4k_preview_v2_jpg), File(N_wood_albedo_png),
      File(N_Wood_png), File(N_wood_2k_jpg),
      File(N_Thumbs_db), File(N_desktop_ini), File(N_DS_STORE),
      Dir(N_Folder2), Dir(N_folder10) }

\* the directories made of a pool: at most MaxEntries entries, no entry
\* twice, in any enumeration order
DirectoriesOf(pool) ==
    {d \in SeqsUpTo(pool, MaxEntries) :
        \A a, b \in 1..Len(d) : a # b => d[a] # d[b]}

\* the dir parameters requests are made with: the root, a subdirectory, a
\* file, a name that does not exist, the parent of the root, and a way to the
\* root through a name that does not exist
RelPaths ==
    { <<>>, N_Folder2, N_rock_exr, <<"n","o","n","e">>, DotDot,
      <<"n","o","n","e","/",".",".">> }

\* the lastIndex of the module's regular expressions when the module is loaded
ZeroIndexes ==
    [ PREVIEW_WORD_RE |-> 0, USELESS_WORD |-> 0, RES_TOKENS_RE |-> 0, VERSION_RE |-> 0,
      TAG_SPLIT_RE |-> 0, PREVIEW_TEST_RE |-> 0 ]

\* the App component as constructed (useState initial values, lines 517-528),
\* before its mount effect; asked and status are the fetches made so far, in
\* order, and what became of each
NoUi ==
    [ mounted |-> FALSE, cwd |-> <<>>, items |-> <<>>, tags |-> <<>>,
      loading |-> FALSE, error |-> "", asked |-> <<>>, status |-> <<>> ]

\* no second request, the regular expressions as loaded
NoPeer == peer = NoReq /\ peerRes = <<>> /\ lastIndex = ZeroIndexes

\* the handler is idle on the directory dir
InitOn(dir) ==
    /\ fs = dir
    /\ req = NoReq
    /\ res = <<>>
    /\ stem = <<>>
    /\ key1 = Pending
    /\ key2 = Pending
    /\ extracted = <<>>
    /\ NoPeer
    /\ ui = NoUi

Init == \E dir \in DirectoriesOf(RockPool) : InitOn(dir)

InitWood == \E dir \in DirectoriesOf(WoodPool) : InitOn(dir)

\* a request arrives
Start ==
    /\ req.pc = "idle"
    /\ \E rel \in RelPaths :
         LET s == startStep(rel)
         IN req' = s.req /\ res' = res \o s.out
    /\ UNCHANGED <<fs, normVars, sharedVars, ui>>

\* fs.readdir answers from the file system
ReaddirDone ==
    /\ req.pc = "readdir"
    /\ LET s == readdirStep(req, readdir(fs, req.dirAbs))
       IN req' = s.req /\ res' = res \o s.out
    /\ UNCHANGED <<fs, normVars, sharedVars, ui>>

\* fs.readdir fails although the directory exists (permission denied)
ReaddirDenied ==
    /\ req.pc = "readdir"
    /\ readdir(fs, req.dirAbs).ok
    /\ LET s == readdirStep(req, [ok |-> FALSE, error |-> "EACCES"])
       IN req' = s.req /\ res' = res \o s.out
    /\ UNCHANGED <<fs, normVars, sharedVars, ui>>

\* one iteration of the scan loop on a directory entry
ScanDir ==
    /\ req.pc = "scan"
    /\ req.entries[req.i].isDir
    /\ req' = scanDirStep(req)
    /\ UNCHANGED <<fs, res, normVars, sharedVars, ui>>

\* one iteration of the scan loop on an ignored file
ScanIgnored ==
    /\ req.pc = "scan"
    /\ ~req.entries[req.i].isDir
    /\ IsIgnored(req.entries[req.i].name)
    /\ req' = scanIgnoredStep(req)
    /\ UNCHANGED <<fs, res, normVars, sharedVars, ui>>

\* one iteration of the scan loop on a file whose stat succeeds
ScanFile ==
    /\ req.pc = "scan"
    /\ ~req.entries[req.i].isDir
    /\ ~IsIgnored(req.entries[req.i].name)
    /\ \E m \in mimeLookup(req.entries[req.i].name) : req' = scanFileStep(req, m)
    /\ UNCHANGED <<fs, res, normVars, sharedVars, ui>>

\* the stat of a file throws (the file was removed after the enumeration, or
\* is a dangling link)
ScanStatFails ==
    /\ req.pc = "scan"
    /\ ~req.entries[req.i].isDir
    /\ ~IsIgnored(req.entries[req.i].name)
    /\ LET s == scanStatFailsStep(req)
       IN req' = s.req /\ res' = res \o s.out
    /\ UNCHANGED <<fs, normVars, sharedVars, ui>>

\* one iteration of the directory loop, the stat succeeding
DirStat ==
    /\ req.pc = "dirs"
    /\ req' = dirStep(req)
    /\ UNCHANGED <<fs, res, normVars, sharedVars, ui>>

\* the stat of a subdirectory throws
DirStatFails ==
    /\ req.pc = "dirs"
    /\ LET s == dirStatFailsStep(req)
       IN req' = s.req /\ res' = res \o s.out
    /\ UNCHANGED <<fs, normVars, sharedVars, ui>>

\* the groups become items, the items are sorted, the tags counted and sorted,
\* and the listing is sent
Finish ==
    /\ req.pc = "finish"
    /\ LET s == finishStep(req)
       IN req' = s.req /\ res' = res \o s.out
    /\ UNCHANGED <<fs, normVars, sharedVars, ui>>

Next ==
    \/ Start
    \/ ReaddirDone
    \/ ReaddirDenied
    \/ ScanDir
    \/ ScanIgnored
    \/ ScanFile
    \/ ScanStatFails
    \/ DirStat
    \/ DirStatFails
    \/ Finish

Spec == Init /\ [][Next]_vars

SpecWood == InitWood /\ [][Next]_vars

N_4k_jpg == <<"4","k",".","j","p","g">>
N_preview_png == <<"p","r","e","v","i","e","w",".","p","n","g">>
N_v2_exr == <<"v","2",".","e","x","r">>
N_Wood_jpg == <<"W","o","o","d",".","j","p","g">>

\* the entries the directories of SpecNoise are made of: files whose stems
\* are noise only, a file with a word, an ignored file and a subdirectory
NoisePool ==
    { File(N_4k_jpg), File(N_preview_png), File(N_v2_exr), File(N_Wood_jpg),
      File(N_Thumbs_db), Dir(N_Folder2) }

InitNoise == \E dir \in DirectoriesOf(NoisePool) : InitOn(dir)

SpecNoise == InitNoise /\ [][Next]_vars

\* the handler is between its first and its last step
Running == req.pc \notin {"idle", "done"}

\* Every awaited promise settles and the event loop runs the continuation:
\* the handler does not stay for ever at an await.  This is WF_vars(Next) with
\* its enabling condition written out: a step of Next is possible in every
\* state in which the handler is running.
SpecLive == Init /\ [][Next]_vars /\ ([]<>(~Running) \/ []<><<Next>>_vars)

----------------------------------------------------------------------------
(* GET /files/* *)

HexDigits == Digits \cup {"a","b","c","d","e","f","A","B","C","D","E","F"}

\* whether s has a "%" that is not followed by two hexadecimal digits:
\* decodeURI throws URIError
Malformed(s) ==
    \E i \in 1..Len(s) :
        /\ s[i] = "%"
        /\ ~(i + 2 <= Len(s) /\ s[i + 1] \in HexDigits /\ s[i + 2] \in HexDigits)

\* the text decodeURI puts for the escape %ab: the character, for the escapes
\* of the characters of the model; the escape itself for a reserved character
\* (%2F stays as it is)
unescape(a, b) ==
    CASE <<a, b>> = <<"2", "0">> -> <<" ">>
      [] <<a, b>> \in {<<"2", "e">>, <<"2", "E">>} -> <<".">>
      [] <<a, b>> \in {<<"5", "b">>, <<"5", "B">>} -> <<"[">>
      [] <<a, b>> \in {<<"5", "d">>, <<"5", "D">>} -> <<"]">>
      [] <<a, b>> = <<"2", "5">> -> <<"%">>
      [] OTHER -> <<"%", a, b>>

\* decodeURI of a well-formed string, from position i on
RECURSIVE DecodeFrom(_, _)
DecodeFrom(s, i) ==
    IF i > Len(s) THEN <<>>
    ELSE IF s[i] = "%" THEN unescape(s[i + 1], s[i + 2]) \o DecodeFrom(s, i + 3)
    ELSE <<s[i]>> \o DecodeFrom(s, i + 1)

\* decodeURI(s): the decoded string, or the URIError thrown
decodeURI(s) ==
    IF Malformed(s) THEN [ok |-> FALSE, error |-> "URI malformed"]
    ELSE [ok |-> TRUE, value |-> DecodeFrom(s, 1)]

W_etc == <<"e","t","c">>
W_passwd == <<"p","a","s","s","w","d">>

\* fs.stat(abs) on the modelled tree: the root is a directory holding the
\* entries of dir; above it are the directories / and /etc and the file
\* /etc/passwd; nothing else exists
stat(dir, abs) ==
    IF abs \in {ASSETS_ROOT, <<>>, <<W_etc>>} THEN [ok |-> TRUE, isDir |-> TRUE]
    ELSE IF abs = <<W_etc, W_passwd>> THEN [ok |-> TRUE, isDir |-> FALSE]
    ELSE IF /\ Len(abs) = Len(ASSETS_ROOT) + 1
            /\ SubSeq(abs, 1, Len(ASSETS_ROOT)) = ASSETS_ROOT
            /\ \E k \in 1..Len(dir) : dir[k].name = abs[Len(abs)]
    THEN [ok |-> TRUE,
          isDir |-> dir[CHOOSE k \in 1..Len(dir) : dir[k].name = abs[Len(abs)]].isDir]
    ELSE [ok |-> FALSE, error |-> "ENOENT"]

\* line 237: path.join(dirAbs, e.name), the location of the stat of file i
scanStatPath(r) ==
    NormalizeSegs(r.dirAbs, SplitSlash(r.entries[r.i].name, 1, <<>>), FALSE)

\* line 268: path.join(dirAbs, d.name), the location of the stat of directory j
dirStatPath(r) ==
    NormalizeSegs(r.dirAbs, SplitSlash(r.dirs[r.j].name, 1, <<>>), FALSE)

\* res.status(404).send('Not found')
notFoundResponse == [status |-> 404, body |-> "Not found"]

\* res.status(400).send('Directory listing via /api/assets only')
directoryResponse == [status |-> 400, body |-> "Directory listing via /api/assets only"]

\* res.setHeader('Content-Type', mt); createReadStream(abs).pipe(res)
streamResponse(mt, abs) == [status |-> 200, contentType |-> mt, stream |-> abs]

\* lines 368-370, the catch block of the raw-file handler
filesCatchStep(r) == [req |-> [r EXCEPT !.pc = "done"], out |-> <<notFoundResponse>>]

\* lines 359-361: the handler starts on req.params[0] = param, up to the call
\* of fs.stat
filesStartStep(param) ==
    LET d == decodeURI(param)
        sj == safeJoin(ASSETS_ROOT, d.value)
    IN IF ~d.ok THEN filesCatchStep([NoReq EXCEPT !.rel = param])
       ELSE IF ~sj.ok THEN filesCatchStep([NoReq EXCEPT !.rel = d.value])
       ELSE [req |-> [NoReq EXCEPT !.pc = "fstat", !.rel = d.value, !.dirAbs = sj.abs],
             out |-> <<>>]

\* lines 361-367: fs.stat answers st, and mime.lookup gives m for a file
filesStatStep(r, st, m) ==
    IF ~st.ok THEN filesCatchStep(r)
    ELSE IF st.isDir
    THEN [req |-> [r EXCEPT !.pc = "done"], out |-> <<directoryResponse>>]
    ELSE [req |-> [r EXCEPT !.pc = "done"],
          out |-> <<streamResponse(OrOctetStream(m), r.dirAbs)>>]

\* the values of req.params[0] requests are made with: a file, a directory,
\* the root, a name that does not exist, ways above the root (plain, escaped,
\* absolute, through a subdirectory), a way back into the root, a name that
\* begins with two dots, and a malformed escape
FileParams ==
    { N_rock_exr, N_rock_jpg, N_Folder2, <<>>, <<"n","o","n","e">>,
      DotDot \o <<"/">> \o W_etc \o <<"/">> \o W_passwd,
      <<"%","2","e","%","2","E","/">> \o W_etc \o <<"/">> \o W_passwd,
      <<"/">> \o W_etc \o <<"/">> \o W_passwd,
      N_Folder2 \o <<"/",".",".","/",".",".","/">> \o W_etc,
      N_Folder2 \o <<"/",".",".","/">> \o N_rock_jpg,
      <<".",".","c","a","c","h","e">>, <<".",".",".">>,
      <<"%","z">> }

\* a request for a raw file arrives
FilesStart ==
    /\ req.pc = "idle"
    /\ \E param \in FileParams :
         LET s == filesStartStep(param)
         IN req' = s.req /\ res' = res \o s.out
    /\ UNCHANGED <<fs, normVars, sharedVars, ui>>

\* fs.stat answers from the file system
FilesStat ==
    /\ req.pc = "fstat"
    /\ \E m \in (IF req.dirAbs = <<>> THEN {NoMime} ELSE mimeLookup(req.dirAbs[Len(req.dirAbs)])) :
         LET s == filesStatStep(req, stat(fs, req.dirAbs), m)
         IN req' = s.req /\ res' = res \o s.out
    /\ UNCHANGED <<fs, normVars, sharedVars, ui>>

\* fs.stat throws although the file is in the directory (it was removed, or
\* may not be read)
FilesStatFails ==
    /\ req.pc = "fstat"
    /\ stat(fs, req.dirAbs).ok
    /\ LET s == filesStatStep(req, [ok |-> FALSE, error |-> "EACCES"], NoMime)
       IN req' = s.req /\ res' = res \o s.out
    /\ UNCHANGED <<fs, normVars, sharedVars, ui>>

NextFiles ==
    \/ Start
    \/ ReaddirDone
    \/ ReaddirDenied
    \/ ScanDir
    \/ ScanIgnored
    \/ ScanFile
    \/ ScanStatFails
    \/ DirStat
    \/ DirStatFails
    \/ Finish
    \/ FilesStart
    \/ FilesStat
    \/ FilesStatFails

\* the server with both endpoints
SpecFiles == Init /\ [][NextFiles]_vars

----------------------------------------------------------------------------
(* Two listing requests at a time *)

\* the test as it would be on an expression with the g flag: the search
\* starts at lastIndex li, a match leaves lastIndex at its end, a failure at 0
previewTestFromGlobal(st, li) ==
    LET hits == {i \in (li + 1)..Len(st) : MatchAlt(toLowerCase(st), i, PREVIEW_WORDS) > 0}
    IN IF hits = {} THEN [found |-> FALSE, lastIndex |-> 0]
       ELSE [found |-> TRUE,
             lastIndex |-> LET i == CHOOSE h \in hits : \A k \in hits : h <= k
                           IN i + MatchAlt(toLowerCase(st), i, PREVIEW_WORDS) - 1]

\* PREVIEW_TEST_RE.test(stem) when the expression's lastIndex is li: without
\* the g flag the search starts at 0 and lastIndex is not written
previewTestFrom(st, li) == [found |-> PreviewTest(st), lastIndex |-> li]

\* what a step of the handler leaves: the request, what it sent, and the
\* lastIndex of the module's regular expressions
stepped(r, out, li) == [req |-> r, out |-> out, lastIndex |-> li]

\* lines 237-261 with the regular expressions' state li: replace() with a g
\* expression starts at 0 whatever lastIndex is and leaves it at 0; split()
\* works on a copy of TAG_SPLIT_RE; the tests have no g flag
scanFileStepShared(r, m, li) ==
    LET e == r.entries[r.i]
        t == previewTestFrom(baseOf(e.name), li.PREVIEW_TEST_RE)
        f == [fileRecord(r.rel, e, OrOctetStream(m)) EXCEPT !.isPreviewLike = t.found]
    IN stepped(afterScan([r EXCEPT !.groups = groupsPush(@, normalizeBase(baseOf(e.name)), f),
                                   !.i = @ + 1]),
               <<>>,
               [li EXCEPT !.PREVIEW_WORD_RE = 0, !.USELESS_WORD = 0, !.RES_TOKENS_RE = 0,
                          !.VERSION_RE = 0, !.PREVIEW_TEST_RE = t.lastIndex])

\* the entries the directories of SpecShared are made of
SharedPool == { File(N_rock_jpg), File(N_rock_preview_jpg), File(N_Thumbs_db), Dir(N_Folder2) }

\* the dir parameters of the two requests
SharedRelPaths == { <<>>, N_Folder2, DotDot }

\* the steps the handler can take next from r on the directory dir with the
\* regular expressions' state li: from one await to the next, with every
\* answer the file system can give
handlerSteps(dir, r, li) ==
    CASE r.pc = "idle" ->
            {stepped(startStep(rel).req, startStep(rel).out, li) : rel \in SharedRelPaths}
      [] r.pc = "readdir" ->
            {stepped(readdirStep(r, rd).req, readdirStep(r, rd).out, li) :
                rd \in {readdir(dir, r.dirAbs)}
                       \cup (IF readdir(dir, r.dirAbs).ok
                             THEN {[ok |-> FALSE, error |-> "EACCES"]} ELSE {})}
      [] r.pc = "scan" /\ r.entries[r.i].isDir -> {stepped(scanDirStep(r), <<>>, li)}
      [] r.pc = "scan" /\ ~r.entries[r.i].isDir ->
            IF IsIgnored(r.entries[r.i].name) THEN {stepped(scanIgnoredStep(r), <<>>, li)}
            ELSE {scanFileStepShared(r, m, li) : m \in mimeLookup(r.entries[r.i].name)}
                 \cup {stepped(scanStatFailsStep(r).req, scanStatFailsStep(r).out, li)}
      [] r.pc = "dirs" ->
            {stepped(dirStep(r), <<>>, li),
             stepped(dirStatFailsStep(r).req, dirStatFailsStep(r).out, li)}
      [] r.pc = "finish" -> {stepped(finishStep(r).req, finishStep(r).out, li)}
      [] OTHER -> {}

InitShared ==
    /\ fs \in DirectoriesOf(SharedPool)
    /\ req = NoReq
    /\ res = <<>>
    /\ NoPeer
    /\ ui = NoUi
    /\ stem = <<>>
    /\ key1 = Pending
    /\ key2 = Pending
    /\ extracted = <<>>

\* the first request takes a step
Serve ==
    /\ \E s \in handlerSteps(fs, req, lastIndex) :
          /\ req' = s.req
          /\ res' = res \o s.out
          /\ lastIndex' = s.lastIndex
    /\ UNCHANGED <<fs, peer, peerRes, normVars, ui>>

\* the second request takes a step
ServePeer ==
    /\ \E s \in handlerSteps(fs, peer, lastIndex) :
          /\ peer' = s.req
          /\ peerRes' = peerRes \o s.out
          /\ lastIndex' = s.lastIndex
    /\ UNCHANGED <<fs, req, res, normVars, ui>>

NextShared == Serve \/ ServePeer

SpecShared == InitShared /\ [][NextShared]_vars

----------------------------------------------------------------------------
(* The web UI: App.load and the fetches in flight *)

\* most directory loads in one run
MaxLoads == 4

\* the library the UI browses, paths as their segments: the root holds the
\* folders A and B, A holds the folder C
UiChildren(dir) ==
    CASE dir = <<>> -> << <<"A">>, <<"B">> >>
      [] dir = <<"A">> -> << <<"A", "C">> >>
      [] OTHER -> <<>>

UiDirs == { <<>>, <<"A">>, <<"B">>, <<"A", "C">> }

\* the body of the server's answer for dir: { cwd, items, tags }, the items
\* being the folders of dir and the tags standing for the tags of dir
UiListing(dir) ==
    [ cwd |-> dir,
      items |-> [k \in 1..Len(UiChildren(dir)) |-> [path |-> UiChildren(dir)[k], isDir |-> TRUE]],
      tags |-> <<[name |-> dir, count |-> 1]>> ]

\* the paths of the breadcrumbs shown for cwd: the root and every prefix of cwd
crumbs(cwd) == {SubSeq(cwd, 1, n) : n \in 0..Len(cwd)}

\* load(dir) up to its await (lines 546-549): setLoading(true), setError(null)
\* and the fetch is sent
loadStep(u, dir) ==
    [u EXCEPT !.loading = TRUE, !.error = "",
              !.asked = Append(@, dir), !.status = Append(@, "pending")]

\* the fetch of request k resolves with r.ok (lines 550-556 and 560-562): the
\* three setters run without an await between them, then finally clears loading
fetchOkStep(u, k) ==
    [u EXCEPT !.cwd = UiListing(u.asked[k]).cwd,
              !.items = UiListing(u.asked[k]).items,
              !.tags = UiListing(u.asked[k]).tags,
              !.loading = FALSE,
              !.status[k] = "ok"]

\* the fetch of request k fails or answers with an error status (lines
\* 550, 557-562): the error is set, the listing shown stays, loading is cleared
fetchFailsStep(u, k) ==
    [u EXCEPT !.error = "HTTP 500", !.loading = FALSE, !.status[k] = "failed"]

InitUi ==
    /\ ui = NoUi
    /\ fs = <<>>
    /\ req = NoReq
    /\ res = <<>>
    /\ NoPeer
    /\ stem = <<>>
    /\ key1 = Pending
    /\ key2 = Pending
    /\ extracted = <<>>

\* line 566: the mount effect loads the root
Mount ==
    /\ ~ui.mounted
    /\ ui' = loadStep([ui EXCEPT !.mounted = TRUE], <<>>)
    /\ UNCHANGED <<fs, req, res, normVars, sharedVars>>

\* a click on a breadcrumb (lines 205-230, 658): shown whether loading or not
NavCrumb ==
    /\ ui.mounted
    /\ Len(ui.asked) < MaxLoads
    /\ \E dir \in crumbs(ui.cwd) : ui' = loadStep(ui, dir)
    /\ UNCHANGED <<fs, req, res, normVars, sharedVars>>

\* a click on the card of a folder (lines 262-267, 727-770): the cards are
\* shown only while loading is false
OpenDir ==
    /\ ui.mounted
    /\ ~ui.loading
    /\ Len(ui.asked) < MaxLoads
    /\ \E k \in 1..Len(ui.items) : ui.items[k].isDir /\ ui' = loadStep(ui, ui.items[k].path)
    /\ UNCHANGED <<fs, req, res, normVars, sharedVars>>

\* the response of a fetch in flight arrives, in any order
FetchOk ==
    /\ \E k \in 1..Len(ui.asked) : ui.status[k] = "pending" /\ ui' = fetchOkStep(ui, k)
    /\ UNCHANGED <<fs, req, res, normVars, sharedVars>>

\* a fetch in flight fails
FetchFails ==
    /\ \E k \in 1..Len(ui.asked) : ui.status[k] = "pending" /\ ui' = fetchFailsStep(ui, k)
    /\ UNCHANGED <<fs, req, res, normVars, sharedVars>>

NextUi == Mount \/ NavCrumb \/ OpenDir \/ FetchOk \/ FetchFails

SpecUi == InitUi /\ [][NextUi]_vars

----------------------------------------------------------------------------
(* The normaliser run on bounded stems *)

W_wood == <<"w","o","o","d">>
W_rock == <<"r","o","c","k">>
W_albedo == <<"a","l","b","e","d","o">>

\* "wood_4k_preview_v2", the example of the source's comment
S_wood_4k_preview_v2 == W_wood \o <<"_","4","k","_">> \o W_preview \o <<"_","v","2">>
\* "wood_albedo"
S_wood_albedo == W_wood \o <<"_">> \o W_albedo

\* the vocabulary stems are built from
Pieces ==
    { W_wood, <<"4">>, <<"k">>, <<"_">>, <<"v">>, <<"1">>,
      <<"p","r","e">>, <<"v","i","e","w">> }

\* the marker words of PREVIEW_WORD_RE
MarkerWords == {W_preview, W_thumb, W_thumbnail}

\* stems that end with a marker word after an underscore
MarkedStems ==
    {s \o <<"_">> \o w : s \in {W_rock, W_wood, S_wood_albedo, <<"v","1">>}, w \in MarkerWords}

\* resolution tokens of the three families with a unit: 4k, 2k, 2048x2048, 1080p
ResTokens ==
    { <<"4","k">>, <<"2","k">>, <<"2","0","4","8","x","2","0","4","8">>,
      <<"1","0","8","0","p">> }

\* "wood" followed by one or by two resolution tokens, an underscore before each
ResStems ==
    {W_wood \o <<"_">> \o a : a \in ResTokens}
        \cup {W_wood \o <<"_">> \o a \o <<"_">> \o b : a, b \in ResTokens}

\* bare numbers: pixel counts that are powers of two, such counts without
\* their first digit, and other numbers
BareNumbers ==
    { <<"5","1","2">>, <<"1","0","2","4">>, <<"2","0","4","8">>, <<"1","6","3","8","4">>,
      <<"0","2","4">>, <<"0","4","8">>, <<"1","3","8","4">>, <<"3","7","6","8">>,
      <<"3","0","0">>, <<"1","0","0","0">>, <<"7","2","0">> }

\* "wood", an underscore and a bare number
NumberStems == {W_wood \o <<"_">> \o n : n \in BareNumbers}

Stems ==
    {Concat(ps) : ps \in SeqsUpTo(Pieces, MaxPieces)}
        \cup {S_wood_4k_preview_v2, S_wood_albedo}
        \cup MarkedStems
        \cup ResStems
        \cup NumberStems


InitNorm ==
    /\ stem \in Stems
    /\ key1 = Pending
    /\ key2 = Pending
    /\ extracted = <<>>
    /\ fs = <<>>
    /\ req = NoReq
    /\ res = <<>>
    /\ NoPeer
    /\ ui = NoUi

\* the key of the stem is computed
Normalize ==
    /\ key1 = Pending
    /\ key1' = normalizeBase(stem)
    /\ UNCHANGED <<fs, req, res, stem, key2, extracted, sharedVars, ui>>

\* the key is normalised again
Renormalize ==
    /\ key1 # Pending
    /\ key2 = Pending
    /\ key2' = normalizeBase(key1)
    /\ UNCHANGED <<fs, req, res, stem, key1, extracted, sharedVars, ui>>

NextNorm == Normalize \/ Renormalize

SpecNorm == InitNorm /\ [][NextNorm]_vars

----------------------------------------------------------------------------
(* The tag extractor run on bounded filenames *)

W_marble == <<"m","a","r","b","l","e">>
W_2048x2048 == <<"2","0","4","8","x","2","0","4","8">>
W_jpg == <<"j","p","g">>

\* "Marble_2048x2048_v3.jpg"
N_Marble_2048x2048_v3_jpg ==
    <<"M">> \o Tail(W_marble) \o <<"_">> \o W_2048x2048 \o <<"_","v","3",".">> \o W_jpg

\* the vocabulary filenames are built from: words in both letter cases, a
\* stopword, resolution and version tokens, digits, a short word, separators
TagPieces ==
    { <<"M">> \o Tail(W_marble), W_2048x2048, <<"v","3">>, <<"V","1","2">>,
      W_jpg, <<"P","N","G">>, W_preview, <<"1","2","3">>, <<"a","b">>,
      <<"4","K">>, <<"1","0","8","0","p">>, <<"2","0","4","8">>,
      <<"_">>, <<".">>, <<"-">> }

TagNames ==
    {Concat(ps) : ps \in SeqsUpTo(TagPieces, MaxTokens)} \cup {N_Marble_2048x2048_v3_jpg}

InitTags ==
    /\ stem \in TagNames
    /\ extracted = <<>>
    /\ key1 = Pending
    /\ key2 = Pending
    /\ fs = <<>>
    /\ req = NoReq
    /\ res = <<>>
    /\ NoPeer
    /\ ui = NoUi

\* the tags of the filename are extracted
ExtractTags ==
    /\ extracted = <<>>
    /\ extracted' = <<extractTagsFromName(stem)>>
    /\ UNCHANGED <<fs, req, res, stem, key1, key2, sharedVars, ui>>

NextTags == ExtractTags

SpecTags == InitTags /\ [][NextTags]_vars

----------------------------------------------------------------------------
(* Properties of the normaliser (checked under SpecNorm) *)

\* C1: normalizeBase is idempotent: normalising the key of any stem again
\* gives the same key.  The code does not have this property: the separators
\* that keep the pieces of a noise token apart are removed last, so the key
\* of "4_k" is "4k", whose own key is empty.
C1_NormalizeIdempotent == key2 # Pending => key2 = key1

----------------------------------------------------------------------------
(* Properties of the listing (checked under Spec and SpecWood) *)

\* the handler has answered with a listing
Listed == Len(res) = 1 /\ res[1].status = 200

\* the items of the listing that are asset groups
GroupItems == {g \in 1..Len(res[1].items) : ~res[1].items[g].isDir}

\* the names of the variants of item g
VariantNames(g) == {res[1].items[g].files[v].name : v \in 1..Len(res[1].items[g].files)}

\* the groups that have a variant named n
GroupsWith(n) == {g \in GroupItems : n \in VariantNames(g)}

W_woodalbedo == W_wood \o W_albedo

\* C2 as stated: the stems "wood_4k_preview_v2" and "wood_albedo" both have
\* the key "wood", so the two files are variants of one group.
C2_BothKeysWood ==
    Listed =>
        /\ \A g \in GroupsWith(N_wood_4k_preview_v2_jpg) \cup GroupsWith(N_wood_albedo_png) :
              res[1].items[g].normalizeBase = W_wood
        /\ Cardinality(GroupsWith(N_wood_4k_preview_v2_jpg) \cup GroupsWith(N_wood_albedo_png)) <= 1

\* C2, amended: the key of "wood_4k_preview_v2" is "wood" and the key of
\* "wood_albedo" is "woodalbedo", so the two files of one directory are
\* placed in two different groups.
C2_KeysWoodAndWoodalbedo ==
    Listed =>
        /\ \A g \in GroupsWith(N_wood_4k_preview_v2_jpg) :
              res[1].items[g].normalizeBase = W_wood
        /\ \A g \in GroupsWith(N_wood_albedo_png) :
              res[1].items[g].normalizeBase = W_woodalbedo
        /\ GroupsWith(N_wood_4k_preview_v2_jpg) \cap GroupsWith(N_wood_albedo_png) = {}

\* a listing of a directory that holds both files
C2_BothFilesListed ==
    /\ Listed
    /\ GroupsWith(N_wood_4k_preview_v2_jpg) # {}
    /\ GroupsWith(N_wood_albedo_png) # {}

\* the names of the files an operating system leaves in a directory
OsNoise(n) ==
    toLowerCase(n) \in {toLowerCase(N_Thumbs_db), toLowerCase(N_desktop_ini),
                        toLowerCase(N_DS_STORE)}

\* the enumerated entries that are files and not such files
ListedFiles == {k \in 1..Len(req.entries) :
                    ~req.entries[k].isDir /\ ~OsNoise(req.entries[k].name)}

\* the places <<g, v>> where a variant named n stands in the listing
PlacesOf(n) ==
    {gv \in GroupItems \X (1..MaxEntries + 1) :
        /\ gv[2] <= Len(res[1].items[gv[1]].files)
        /\ res[1].items[gv[1]].files[gv[2]].name = n}

\* C3: in every successful listing the groups partition the files of the
\* directory: each enumerated file that is not ignored is a variant of exactly
\* one group, exactly once; no group is empty; every variant is such a file,
\* so no subdirectory is a variant.
C3_GroupsPartitionFiles ==
    Listed =>
        /\ \A k \in ListedFiles : Cardinality(PlacesOf(req.entries[k].name)) = 1
        /\ \A g \in GroupItems : Len(res[1].items[g].files) >= 1
        /\ \A g \in GroupItems : \A n \in VariantNames(g) :
              /\ \E k \in ListedFiles : req.entries[k].name = n
              /\ ~\E k \in 1..Len(req.entries) :
                    req.entries[k].isDir /\ req.entries[k].name = n

\* a listing of a directory with a subdirectory and files of two groups
C3_TwoGroupsAndDir ==
    /\ Listed
    /\ Cardinality(GroupItems) = 2
    /\ \E k \in 1..Len(req.entries) : req.entries[k].isDir
    /\ Len(req.entries) = MaxEntries

\* the positions of the variants of item g whose extension is ext
WithExt(g, ext) ==
    {v \in 1..Len(res[1].items[g].files) : res[1].items[g].files[v].ext = ext}

\* the least element of a non-empty set of numbers
Least(S) == CHOOSE x \in S : \A y \in S : x <= y

E_exr == <<".","e","x","r">>
E_hdr == <<".","h","d","r">>

\* the position of the variant that is to be the primary of item g
ExpectedPrimary(g) ==
    IF WithExt(g, E_exr) # {} THEN Least(WithExt(g, E_exr))
    ELSE IF WithExt(g, E_hdr) # {} THEN Least(WithExt(g, E_hdr))
    ELSE 1

\* C4: the primary of every group is its first .exr variant if it has one,
\* otherwise its first .hdr variant if it has one, otherwise its first
\* variant; for {rock.exr, rock_preview.jpg, rock_thumb.png} it is rock.exr
\* in whatever order the files were enumerated.
C4_PrimaryByPriority ==
    Listed =>
        \A g \in GroupItems :
            LET it == res[1].items[g]
                pr == it.files[ExpectedPrimary(g)]
            IN /\ it.name = pr.name
               /\ it.url = pr.url
               /\ it.mimetype = pr.mimetype
               /\ (VariantNames(g) = {N_rock_exr, N_rock_preview_jpg, N_rock_thumb_png}
                      => it.name = N_rock_exr)

\* a group whose .hdr variant was enumerated before its .exr variant and
\* whose primary is the .exr variant
C4_ExrAfterHdrIsPrimary ==
    /\ Listed
    /\ \E g \in GroupItems :
          /\ WithExt(g, E_hdr) # {}
          /\ WithExt(g, E_exr) # {}
          /\ Least(WithExt(g, E_hdr)) < Least(WithExt(g, E_exr))
          /\ res[1].items[g].name = N_rock_exr

\* the positions of the variants of item g that can be its thumbnail, the
\* preview-marked ones only when marked is TRUE
ThumbCandidates(g, marked) ==
    {v \in 1..Len(res[1].items[g].files) :
        LET f == res[1].items[g].files[v]
        IN f.isImage /\ f.ext \in WEB_IMAGE_EXT /\ (marked => f.isPreviewLike)}

\* C5: the thumbnail of every group is its first variant that is an image,
\* preview-marked and of a web image extension; without such a variant its
\* first variant that is an image of a web image extension; otherwise none.
C5_ThumbnailByPreference ==
    Listed =>
        \A g \in GroupItems :
            LET it == res[1].items[g]
            IN IF ThumbCandidates(g, TRUE) # {}
               THEN it.thumbnail = it.files[Least(ThumbCandidates(g, TRUE))].url
               ELSE IF ThumbCandidates(g, FALSE) # {}
               THEN it.thumbnail = it.files[Least(ThumbCandidates(g, FALSE))].url
               ELSE it.thumbnail = Null

\* a group in which an unmarked web image was enumerated before a
\* preview-marked one, which is the thumbnail
C5_MarkedWinsOverEarlier ==
    /\ Listed
    /\ \E g \in GroupItems :
          /\ ThumbCandidates(g, TRUE) # {}
          /\ Least(ThumbCandidates(g, FALSE)) < Least(ThumbCandidates(g, TRUE))
          /\ res[1].items[g].thumbnail =
                res[1].items[g].files[Least(ThumbCandidates(g, TRUE))].url
          /\ res[1].items[g].thumbnail # Null

\* the elements of a sequence
Range(s) == {s[k] : k \in 1..Len(s)}

\* the names of the tags the listing reports
ReportedTags == {res[1].tags[k].name : k \in 1..Len(res[1].tags)}

\* C6: files named Thumbs.db, desktop.ini or .DS_Store in any letter case
\* are never a variant of a group and contribute no tag: the tags reported
\* are exactly those of the enumerated files that are not such files; a
\* directory holding only such files is listed with no item and no tag.
C6_OsNoiseIgnored ==
    Listed =>
        /\ \A g \in GroupItems : \A n \in VariantNames(g) : ~OsNoise(n)
        /\ ReportedTags =
              UNION {Range(extractTagsFromName(req.entries[k].name)) :
                        k \in ListedFiles}
        /\ (\A k \in 1..Len(req.entries) :
                ~req.entries[k].isDir /\ OsNoise(req.entries[k].name))
              => res[1].items = <<>> /\ res[1].tags = <<>>

\* the listing of a directory that holds nothing but such files, one of them
\* spelled in another letter case than the pattern
C6_OnlyNoiseListedEmpty ==
    /\ Listed
    /\ Len(req.entries) >= 2
    /\ \A k \in 1..Len(req.entries) :
          ~req.entries[k].isDir /\ OsNoise(req.entries[k].name)
    /\ \E k \in 1..Len(req.entries) : req.entries[k].name = N_DS_STORE
    /\ res[1].items = <<>>
    /\ res[1].tags = <<>>

\* the union tag set of group item g, in lower case
UnionTags(g) ==
    UNION {{toLowerCase(x) : x \in Range(res[1].items[g].files[v].tags)} :
              v \in 1..Len(res[1].items[g].files)}

\* C7: the count reported for a tag is the number of groups whose union tag
\* set holds it, however many variants of a group carry it; every tag of a
\* group is reported, once; subdirectories add nothing.
C7_TagCountedPerGroup ==
    Listed =>
        /\ \A k \in 1..Len(res[1].tags) :
              res[1].tags[k].count =
                  Cardinality({g \in GroupItems : res[1].tags[k].name \in UnionTags(g)})
        /\ \A g \in GroupItems : UnionTags(g) \subseteq ReportedTags
        /\ \A k, j \in 1..Len(res[1].tags) :
              res[1].tags[k].name = res[1].tags[j].name => k = j

\* a group of three variants that all carry the tag wood, counted once
C7_ThreeVariantsCountOne ==
    /\ Listed
    /\ \E g \in GroupItems :
          /\ Len(res[1].items[g].files) = 3
          /\ \A v \in 1..3 : W_wood \in Range(res[1].items[g].files[v].tags)
    /\ \E k \in 1..Len(res[1].tags) :
          res[1].tags[k].name = W_wood /\ res[1].tags[k].count = 1

\* C8: in every listing all subdirectory items come before all group items,
\* and the items of each class are in non-decreasing order of name under the
\* numeric-aware, case-insensitive comparison; Folder2 comes before folder10.
C8_DirsFirstThenByName ==
    Listed =>
        \A a, b \in 1..Len(res[1].items) :
            a < b =>
                /\ ~(~res[1].items[a].isDir /\ res[1].items[b].isDir)
                /\ res[1].items[a].isDir = res[1].items[b].isDir
                      => localeCompareNumericBase(res[1].items[a].name,
                                                  res[1].items[b].name) <= 0
                /\ ~(res[1].items[a].name = N_folder10 /\ res[1].items[b].name = N_Folder2)

\* folder10 was enumerated before Folder2 and after a file; the listing has
\* Folder2, folder10 and then the file's group
C8_Folder2BeforeFolder10 ==
    /\ Listed
    /\ Len(req.entries) >= 3
    /\ ~req.entries[1].isDir
    /\ req.entries[2].name = N_folder10
    /\ req.entries[3].name = N_Folder2
    /\ res[1].items[1].name = N_Folder2
    /\ res[1].items[2].name = N_folder10
    /\ ~res[1].items[3].isDir

\* the location the dir parameter of the request resolves to is a directory
\* that exists: the root or a subdirectory of it
TargetIsDirectory ==
    \/ req.dirAbs = ASSETS_ROOT
    \/ \E k \in 1..Len(fs) : fs[k].isDir /\ req.dirAbs = Append(ASSETS_ROOT, fs[k].name)

\* the one response sent is an error: status 500 with a message, no items
ErrorSent(r) ==
    /\ Len(r) = 1
    /\ r[1].status = 500
    /\ DOMAIN r[1] = {"status", "error"}
    /\ r[1].error # ""

\* C9: a request whose resolved location does not exist, is not a directory
\* or cannot be read is answered with status 500 and an error message, never
\* with a successful listing.
C9_UnreadableIsError ==
    /\ [](Listed => TargetIsDirectory)
    /\ [](req.pc = "done" /\ ~TargetIsDirectory => ErrorSent(res))
    /\ [][req.pc = "readdir" /\ (~TargetIsDirectory \/ ReaddirDenied)
             => req'.pc = "done" /\ ErrorSent(res')]_vars

\* the request for a name that does not exist was answered with the error
C9_MissingAnswered500 ==
    /\ req.pc = "done"
    /\ req.rel = <<"n","o","n","e">>
    /\ req.dirAbs # <<>>
    /\ ErrorSent(res)
    /\ res[1].error = "ENOENT"

\* the listing covers every enumerated subdirectory and every file that is
\* not ignored
CompleteListing ==
    \A k \in 1..Len(req.entries) :
        IF req.entries[k].isDir
        THEN \E a \in 1..Len(res[1].items) :
                res[1].items[a].isDir /\ res[1].items[a].name = req.entries[k].name
        ELSE OsNoise(req.entries[k].name) \/ GroupsWith(req.entries[k].name) # {}

\* C10: every request gets exactly one response: none while the handler
\* runs, one when it has ended, and it does end.  The response is a complete
\* listing or an error without items; a stat that fails after the enumeration
\* ends the request with the error.
C10_OneCompleteOrError ==
    /\ [](Len(res) <= 1 /\ (req.pc = "done" <=> Len(res) = 1))
    /\ [](Len(res) = 1 => (Listed /\ CompleteListing) \/ ErrorSent(res))
    /\ [][ScanStatFails \/ DirStatFails => ErrorSent(res')]_vars
    /\ (req.pc # "idle" ~> Len(res) = 1)

\* a stat failed when a file was already grouped: the error is the response
C10_StatFailedAfterGrouping ==
    /\ req.pc = "done"
    /\ req.groups # <<>>
    /\ req.i <= Len(req.entries)
    /\ ErrorSent(res)

----------------------------------------------------------------------------
(* Properties of the tag extractor (checked under SpecTags) *)

\* the tokens of the stem of the filename, as the separators cut it
StemTokens == SplitFrom(baseOf(stem), 1, <<>>)

\* v followed by 1 to 4 digits, in either letter case
LooksLikeVersion(tk) ==
    /\ Len(tk) >= 2 /\ Len(tk) <= 5
    /\ tk[1] \in {"v", "V"}
    /\ \A k \in 2..Len(tk) : tk[k] \in Digits

\* WIDTHxHEIGHT: 3 to 5 digits, x, 3 to 5 digits
LooksLikeWxH(tk) ==
    \E w \in 3..5 : \E h \in 3..5 :
        /\ Len(tk) = w + 1 + h
        /\ tk[w + 1] \in {"x", "X"}
        /\ \A k \in (1..w) \cup ((w + 2)..(w + 1 + h)) : tk[k] \in Digits

\* a word of letters, at least 3 of them, that is no stopword
OrdinaryWord(tk) ==
    /\ Len(tk) >= 3
    /\ \A k \in 1..Len(tk) : lowerChar(tk[k]) \in {LowerCase[j] : j \in 1..26}
    /\ toLowerCase(tk) \notin TAG_STOPWORDS

\* C11: extractTagsFromName returns no tag of the version pattern and no
\* stopword; every token of the stem that is WIDTHxHEIGHT or an ordinary word
\* of at least 3 characters is returned, in lower case; the tags of
\* "Marble_2048x2048_v3.jpg" hold marble and 2048x2048 and neither v3 nor jpg.
C11_TagsFiltered ==
    Len(extracted) = 1 =>
        /\ \A k \in 1..Len(extracted[1]) :
              /\ ~LooksLikeVersion(extracted[1][k])
              /\ extracted[1][k] \notin TAG_STOPWORDS
              /\ extracted[1][k] = toLowerCase(extracted[1][k])
        /\ \A k \in 1..Len(StemTokens) :
              LooksLikeWxH(StemTokens[k]) \/ OrdinaryWord(StemTokens[k])
                  => InSeq(toLowerCase(StemTokens[k]), extracted[1])
        /\ stem = N_Marble_2048x2048_v3_jpg =>
              /\ InSeq(W_marble, extracted[1])
              /\ InSeq(W_2048x2048, extracted[1])
              /\ ~InSeq(<<"v","3">>, extracted[1])
              /\ ~InSeq(W_jpg, extracted[1])

\* the tags of "Marble_2048x2048_v3.jpg" were extracted
C11_MarbleTagged ==
    /\ stem = N_Marble_2048x2048_v3_jpg
    /\ extracted = << <<W_marble, W_2048x2048>> >>

----------------------------------------------------------------------------
(* Properties of the listing: kind, tags, grouping, order *)

\* the coarse category of a media type
Category(m) ==
    IF m.type \in {"image", "video", "audio", "text"} THEN m.type
    ELSE IF m = Mime("application", "pdf") THEN "pdf"
    ELSE "other"

\* C12: the kind of a group whose primary has the extension .exr or .hdr is
\* "other" whatever media type was looked up for it; the kind of any other
\* group is the coarse category of its primary's media type.  The code
\* overrides the kind for .exr only: a group whose primary is rock.hdr has the
\* kind "image" when mime.lookup knows image/vnd.radiance.
C12_RawPrimaryIsOther ==
    Listed =>
        \A g \in GroupItems :
            res[1].items[g].kind =
                IF extOf(res[1].items[g].name) \in {E_exr, E_hdr}
                THEN "other"
                ELSE Category(res[1].items[g].mimetype)

\* C13: the tags of a group hold every tag of every variant of the group, and
\* no two of them are equal when letter case is ignored
C13_UnionTagsCoverAndDistinct ==
    Listed =>
        \A g \in GroupItems :
            /\ \A v \in 1..Len(res[1].items[g].files) :
                   \A t \in Range(res[1].items[g].files[v].tags) :
                       t \in Range(res[1].items[g].tags)
            /\ \A a, b \in 1..Len(res[1].items[g].tags) :
                   a # b => toLowerCase(res[1].items[g].tags[a])
                                # toLowerCase(res[1].items[g].tags[b])

\* a group of two variants whose stems differ in letter case and share a tag,
\* one of them adding a tag of its own
C13_SharedTagListedOnce ==
    /\ Listed
    /\ \E g \in GroupItems :
          /\ VariantNames(g) = {N_Wood_png, N_wood_2k_jpg}
          /\ Len(res[1].items[g].tags) = 2

\* the digits and the lower-case letters in ascending order
Alphanumerics == <<"0","1","2","3","4","5","6","7","8","9">> \o LowerCase

\* a comes strictly before b in dictionary order, both made of alphanumerics
RECURSIVE NameBefore(_, _)
NameBefore(a, b) ==
    IF b = <<>> THEN FALSE
    ELSE IF a = <<>> THEN TRUE
    ELSE IF Head(a) # Head(b)
    THEN \E j, k \in 1..Len(Alphanumerics) :
            j < k /\ Alphanumerics[j] = Head(a) /\ Alphanumerics[k] = Head(b)
    ELSE NameBefore(Tail(a), Tail(b))

\* the lower-case names of the tags of the listed groups
ListedTagNames == UNION {{toLowerCase(t) : t \in Range(res[1].items[g].tags)} : g \in GroupItems}

\* C14: the tag counts of a listing have one entry for each distinct lower-case
\* tag name of its groups, every count is at least 1, and the entries are in
\* descending order of count, entries of equal count in ascending order of name
C14_TagCountsOrdered ==
    Listed =>
        /\ ReportedTags = ListedTagNames
        /\ \A a, b \in 1..Len(res[1].tags) :
              a # b => res[1].tags[a].name # res[1].tags[b].name
        /\ \A a \in 1..Len(res[1].tags) : res[1].tags[a].count >= 1
        /\ \A a, b \in 1..Len(res[1].tags) :
              a < b =>
                \/ res[1].tags[a].count > res[1].tags[b].count
                \/ /\ res[1].tags[a].count = res[1].tags[b].count
                   /\ NameBefore(res[1].tags[a].name, res[1].tags[b].name)

\* a listing of four tags, the first counted twice and the others once, in
\* which a group met the tag 4k before the tag 2k
C14_CountThenName ==
    /\ Listed
    /\ Len(res[1].tags) = 4
    /\ res[1].tags[1].count = 2
    /\ res[1].tags[2].count = 1
    /\ \E g \in GroupItems :
          \E a, b \in 1..Len(res[1].items[g].tags) :
              /\ a < b
              /\ res[1].items[g].tags[a] = <<"4", "k">>
              /\ res[1].items[g].tags[b] = <<"2", "k">>

\* the stem s written in capital letters
Capitalised(s) ==
    [k \in 1..Len(s) |->
        IF InSeq(s[k], LowerCase)
        THEN UpperCase[CHOOSE j \in 1..26 : LowerCase[j] = s[k]]
        ELSE s[k]]

\* the stem of the enumerated entry k
StemOf(k) == baseOf(req.entries[k].name)

\* C15: the key is a function of the stem that ignores letter case (a stem,
\* the same stem in capitals and the same stem in small letters have one
\* key), and two files of the listed directory are variants of one group
\* exactly when the keys of their stems are equal
C15_KeyIgnoresCaseAndGroups ==
    Listed =>
        /\ \A k \in ListedFiles :
              /\ normalizeBase(Capitalised(StemOf(k))) = normalizeBase(StemOf(k))
              /\ normalizeBase(toLowerCase(StemOf(k))) = normalizeBase(StemOf(k))
        /\ \A a, b \in ListedFiles :
              (GroupsWith(req.entries[a].name) \cap GroupsWith(req.entries[b].name) # {})
                  <=> normalizeBase(StemOf(a)) = normalizeBase(StemOf(b))

\* a listing in which two files whose stems are written in different letter
\* case are variants of one group and a third file is in another group
C15_CaseVariantsGrouped ==
    /\ Listed
    /\ GroupsWith(N_Wood_png) \cap GroupsWith(N_wood_2k_jpg) # {}
    /\ GroupsWith(N_wood_albedo_png) # {}

\* the place of the file named n in the enumeration
EnumeratedAt(n) == CHOOSE k \in 1..Len(req.entries) : req.entries[k].name = n

\* the variants of every group stand in the order of the enumeration
InEnumerationOrder(groups) ==
    \A g \in 1..Len(groups) :
        \A a, b \in 1..Len(groups[g].files) :
            a < b => EnumeratedAt(groups[g].files[a].name)
                        < EnumeratedAt(groups[g].files[b].name)

\* C16: at every point of the scan and in the listing, the variants of each
\* group stand in the order in which the enumeration returned their files, and
\* a step of the handler only ever adds a file after the variants its group
\* already has
C16_VariantsInEnumerationOrder ==
    /\ [](InEnumerationOrder(req.groups))
    /\ [](Listed => InEnumerationOrder([g \in 1..Len(res[1].items) |-> res[1].items[g]]))
    /\ [][\A g \in 1..Len(req.groups) :
            /\ g <= Len(req'.groups)
            /\ Len(req.groups[g].files) <= Len(req'.groups[g].files)
            /\ SubSeq(req'.groups[g].files, 1, Len(req.groups[g].files))
                  = req.groups[g].files]_vars

\* a listing of a group of three variants that were enumerated in an order
\* that is neither the order of their names nor the order of preference
C16_ThreeVariantsAsEnumerated ==
    /\ Listed
    /\ \E g \in GroupItems :
          /\ Len(res[1].items[g].files) = 3
          /\ res[1].items[g].files[1].name = N_rock_thumb_png
          /\ res[1].items[g].files[2].name = N_rock_exr
          /\ res[1].items[g].files[3].name = N_rock_jpg

----------------------------------------------------------------------------
(* Properties of the root confinement and of the failures *)

\* the absolute path abs is the root or lies below it
WithinRoot(abs) ==
    /\ Len(abs) >= Len(ASSETS_ROOT)
    /\ SubSeq(abs, 1, Len(ASSETS_ROOT)) = ASSETS_ROOT
    /\ \A k \in 1..Len(abs) : abs[k] \notin {<<>>, <<".">>, DotDot} /\ ~InSeq("/", abs[k])

\* the locations the handler is enumerating, statting or streaming
Accessing ==
    CASE req.pc = "readdir" -> {req.dirAbs}
      [] req.pc = "scan" -> {scanStatPath(req)}
      [] req.pc = "dirs" -> {dirStatPath(req)}
      [] req.pc = "fstat" -> {req.dirAbs}
      [] OTHER -> {res[k].stream : k \in {j \in 1..Len(res) : "stream" \in DOMAIN res[j]}}

\* C17: safeJoin gives only the root or a location below it and throws for
\* every path that resolves outside the root, so at no point does a handler
\* enumerate, stat or stream a location outside the root, and a request whose
\* path resolves outside the root is answered with an error
C17_ConfinedToRoot ==
    /\ \A loc \in Accessing : WithinRoot(loc)
    /\ req.pc # "idle" /\ ~Malformed(req.rel) =>
          /\ safeJoin(ASSETS_ROOT, req.rel).ok
                => WithinRoot(safeJoin(ASSETS_ROOT, req.rel).abs)
          /\ ~WithinRoot(pathResolve(ASSETS_ROOT, req.rel)) =>
                /\ ~safeJoin(ASSETS_ROOT, req.rel).ok
                /\ req.pc = "done"
                /\ Len(res) = 1
                /\ res[1].status \in {404, 500}

\* a request of the raw-file endpoint for ../etc/passwd, a file that exists
\* above the root, was refused
C17_TraversalRefused ==
    /\ req.pc = "done"
    /\ req.rel = DotDot \o <<"/">> \o W_etc \o <<"/">> \o W_passwd
    /\ res = <<notFoundResponse>>

\* the request was refused because its path resolves outside the root
TraversalRefused ==
    /\ req.pc = "done"
    /\ Len(res) = 1
    /\ ~Malformed(req.rel)
    /\ ~WithinRoot(pathResolve(ASSETS_ROOT, req.rel))

\* C18: the answer to a request refused for leaving the root differs from
\* the answer either endpoint gives for a location that does not exist
C18_TraversalDistinctFromNotFound ==
    TraversalRefused => res[1] \notin {notFoundResponse, errorResponse("ENOENT")}

----------------------------------------------------------------------------
(* Properties of the marker words *)

\* the stem is s, an underscore and the marker word w
EndsWithMarker(w) ==
    /\ Len(stem) > Len(w) + 1
    /\ SubSeq(stem, Len(stem) - Len(w), Len(stem)) = <<"_">> \o w

\* the part of the stem before the underscore and the marker word w
Unmarked(w) == SubSeq(stem, 1, Len(stem) - Len(w) - 1)

\* C20: for a stem s whose key is not empty and a marker word w, the key of
\* s, an underscore and w is the key of s
C20_MarkerWordRemoved ==
    key1 # Pending =>
        \A w \in MarkerWords :
            EndsWithMarker(w) /\ normalizeBase(Unmarked(w)) # <<>>
                => key1 = normalizeBase(Unmarked(w))

----------------------------------------------------------------------------
(* Properties of requests handled at the same time *)

\* the responses the handler can send from r with the regular expressions'
\* state li when no other request is handled
RECURSIVE AloneFrom(_, _)
AloneFrom(r, li) ==
    UNION { IF s.out # <<>> THEN {s.out[1]} ELSE AloneFrom(s.req, s.lastIndex) :
            s \in handlerSteps(fs, r, li) }

\* the responses a request for rel can get alone on the directory
Alone(rel) ==
    UNION { IF s.out # <<>> THEN {s.out[1]} ELSE AloneFrom(s.req, s.lastIndex) :
            s \in {t \in handlerSteps(fs, NoReq, ZeroIndexes) : t.req.rel = rel} }

\* C19: with two listing requests interleaved at their awaits, the response
\* of each is one the same request gets alone on the same directory, and at
\* every await the module's regular expressions are as they were loaded
C19_RequestsDoNotInterfere ==
    /\ lastIndex = ZeroIndexes
    /\ Len(res) <= 1
    /\ Len(peerRes) <= 1
    /\ res # <<>> => res[1] \in Alone(req.rel)
    /\ peerRes # <<>> => peerRes[1] \in Alone(peer.rel)

\* the first request has listed a group of two variants, one of them marked
\* as a preview, while the second request is in the middle of its scan of the
\* same directory
C19_ListedWhilePeerScans ==
    /\ Listed
    /\ \E g \in GroupItems :
          /\ Len(res[1].items[g].files) = 2
          /\ res[1].items[g].files[1].isPreviewLike
    /\ peer.pc = "scan"
    /\ peer.i = 2
    /\ peer.groups # <<>>

----------------------------------------------------------------------------
(* Properties of the resolution tokens *)

\* C21: a stem made of "wood" and of resolution tokens, each between
\* underscores or at the end of the stem, has the key "wood", also when two
\* tokens follow each other with one underscore between them
C21_AdjacentResTokensRemoved ==
    key1 # Pending /\ stem \in ResStems => key1 = W_wood

\* the pixel counts that are powers of two, 512 to 32768
PowerOfTwoCounts ==
    { <<"5","1","2">>, <<"1","0","2","4">>, <<"2","0","4","8">>, <<"4","0","9","6">>,
      <<"8","1","9","2">>, <<"1","6","3","8","4">>, <<"3","2","7","6","8">> }

\* the bare number of a stem of NumberStems
NumberOf(st) == SubSeq(st, Len(W_wood) + 2, Len(st))

\* C22: the key of "wood", an underscore and a bare number is "wood" when the
\* number is a power-of-two pixel count, and keeps the number otherwise
C22_OnlyPowersOfTwoRemoved ==
    key1 # Pending /\ stem \in NumberStems =>
        key1 = IF NumberOf(stem) \in PowerOfTwoCounts
               THEN W_wood
               ELSE W_wood \o NumberOf(stem)

----------------------------------------------------------------------------
(* Properties of the resolution tags *)

\* an integer 1 to 32 followed by k, in either letter case
LooksLikeNk(tk) ==
    /\ Len(tk) \in 2..3
    /\ tk[Len(tk)] \in {"k", "K"}
    /\ \A j \in 1..(Len(tk) - 1) : tk[j] \in Digits
    /\ tk[1] # "0"
    /\ NumberAt(tk, 1, Len(tk) - 1) \in 1..32

\* a standard video height followed by p, in either letter case
LooksLikeHeightP(tk) ==
    /\ Len(tk) >= 2
    /\ tk[Len(tk)] \in {"p", "P"}
    /\ SubSeq(tk, 1, Len(tk) - 1) \in {VIDEO_HEIGHTS[j] : j \in 1..Len(VIDEO_HEIGHTS)}

\* the token belongs to one of the resolution families of the normaliser
InResolutionFamily(tk) ==
    \/ LooksLikeNk(tk)
    \/ LooksLikeWxH(tk)
    \/ LooksLikeHeightP(tk)
    \/ tk \in PowerOfTwoCounts

\* C23: every token of the stem that belongs to a resolution family (Nk,
\* WIDTHxHEIGHT, a video height with p, a bare power-of-two pixel count) is
\* returned as a tag, in lower case, whatever its length and also when it is
\* made of digits only
C23_ResolutionTokensKept ==
    Len(extracted) = 1 =>
        \A k \in 1..Len(StemTokens) :
            InResolutionFamily(StemTokens[k])
                => InSeq(toLowerCase(StemTokens[k]), extracted[1])

----------------------------------------------------------------------------
(* Properties of the group of empty key (checked under SpecNoise) *)

\* the items whose key is the empty string
EmptyKeyGroups == {g \in GroupItems : res[1].items[g].normalizeBase = <<>>}

\* C24: the files of the directory whose key is empty are the variants of one
\* group, whose key is empty; its name, url, thumbnail, kind and tags follow
\* from its variants as those of every group do
C24_NoiseFilesOneGroup ==
    Listed =>
        /\ Cardinality(EmptyKeyGroups) <= 1
        /\ \A k \in ListedFiles :
              normalizeBase(StemOf(k)) = <<>>
                  <=> GroupsWith(req.entries[k].name) \cap EmptyKeyGroups # {}
        /\ \A g \in EmptyKeyGroups :
              /\ ~res[1].items[g].isDir
              /\ res[1].items[g].name = res[1].items[g].files[ExpectedPrimary(g)].name
              /\ res[1].items[g].url = res[1].items[g].files[ExpectedPrimary(g)].url
              /\ res[1].items[g].thumbnail =
                    IF ThumbCandidates(g, TRUE) # {}
                    THEN res[1].items[g].files[Least(ThumbCandidates(g, TRUE))].url
                    ELSE IF ThumbCandidates(g, FALSE) # {}
                    THEN res[1].items[g].files[Least(ThumbCandidates(g, FALSE))].url
                    ELSE Null
              /\ res[1].items[g].kind =
                    IF extOf(res[1].items[g].name) = E_exr THEN "other"
                    ELSE Category(res[1].items[g].mimetype)
              /\ Range(res[1].items[g].tags) = UnionTags(g)

\* a listing in which 4k.jpg, preview.png and v2.exr are the variants of the
\* group of empty key, enumerated in this order: the primary is v2.exr, the
\* thumbnail preview.png and the only tag 4k
C24_ThreeNoiseFilesGrouped ==
    /\ Listed
    /\ \E g \in EmptyKeyGroups :
          /\ Len(res[1].items[g].files) = 3
          /\ res[1].items[g].files[1].name = N_4k_jpg
          /\ res[1].items[g].name = N_v2_exr
          /\ res[1].items[g].thumbnail = fileUrl(<<>>, N_preview_png)
          /\ res[1].items[g].tags = << <<"4","k">> >>

----------------------------------------------------------------------------
(* Properties of the guard on paths within the root *)

\* C25: safeJoin accepts the path of a request exactly when the path resolves
\* to the root or below it, a first segment that begins with two dots
\* ("..cache", "...") included
C25_AcceptsAllWithinRoot ==
    req.pc # "idle" /\ ~Malformed(req.rel) =>
        (safeJoin(ASSETS_ROOT, req.rel).ok <=> WithinRoot(pathResolve(ASSETS_ROOT, req.rel)))

----------------------------------------------------------------------------
(* Properties of the web UI (checked under SpecUi) *)

\* no fetch is in flight and at least one was made
AllArrived ==
    /\ ui.asked # <<>>
    /\ \A k \in 1..Len(ui.asked) : ui.status[k] # "pending"

\* the path, the items and the tags shown are those of one listing
ShownFromOneResponse ==
    \/ ui.cwd = <<>> /\ ui.items = <<>> /\ ui.tags = <<>>
    \/ \E dir \in UiDirs :
          /\ ui.cwd = UiListing(dir).cwd
          /\ ui.items = UiListing(dir).items
          /\ ui.tags = UiListing(dir).tags

\* C26: the path, items and tags shown always come from one response, and
\* once every fetch has been answered, the last one with a listing, they are
\* those of the directory that was requested last
C26_LastRequestedShown ==
    /\ ShownFromOneResponse
    /\ AllArrived /\ ui.status[Len(ui.asked)] = "ok" =>
          /\ ui.cwd = ui.asked[Len(ui.asked)]
          /\ ui.items = UiListing(ui.asked[Len(ui.asked)]).items
          /\ ui.tags = UiListing(ui.asked[Len(ui.asked)]).tags

====
